------------------------- MODULE GroundSessionProofs -------------------------
(***************************************************************************)
(* What the ground station shows its operator was sent by the satellite:   *)
(* for any commands, answers, log texts and noise, and any number of       *)
(* calls.                                                                  *)
(***************************************************************************)
EXTENDS GroundSession, DataLemmas, SequenceTheorems, TLAPS

-----------------------------------------------------------------------------
(* The first and the last flag of a read *)

LEMMA FirstFlagLeast ==
  ASSUME NEW S, NEW read \in Seq(S), HasFlag(read)
  PROVE  /\ FirstFlag(read) \in FlagAt(read)
         /\ \A j \in FlagAt(read) : FirstFlag(read) <= j
<1>1. FlagAt(read) \subseteq Nat /\ FlagAt(read) # {}
  BY DEF FlagAt, HasFlag
<1>2. \E i \in FlagAt(read) : \A j \in FlagAt(read) : i <= j
  BY <1>1, LeastNumber
<1>. QED
  BY <1>2 DEF FirstFlag

LEMMA LastFlagGreatest ==
  ASSUME NEW S, NEW read \in Seq(S), HasFlag(read)
  PROVE  /\ LastFlag(read) \in FlagAt(read)
         /\ \A j \in FlagAt(read) : j <= LastFlag(read)
<1>. DEFINE Behind == {Len(read) - i : i \in FlagAt(read)}
<1>1. FlagAt(read) \subseteq 1..Len(read) /\ Len(read) \in Nat /\ FlagAt(read) # {}
  BY DEF FlagAt, HasFlag
<1>2. Behind \subseteq Nat /\ Behind # {}
  BY <1>1
<1>3. PICK x \in Behind : \A y \in Behind : x <= y
  <2>. HIDE DEF Behind
  <2>. QED
    BY <1>2, LeastNumber
<1>4. PICK i \in FlagAt(read) : x = Len(read) - i
  BY <1>3
<1>5. ASSUME NEW j \in FlagAt(read) PROVE j <= i
  <2>1. Len(read) - j \in Behind
    OBVIOUS
  <2>2. x <= Len(read) - j
    BY <1>3, <2>1
  <2>3. i \in Nat /\ j \in Nat
    BY <1>1
  <2>. QED
    BY <1>1, <1>4, <2>2, <2>3
<1>. QED
  BY <1>4, <1>5 DEF LastFlag

-----------------------------------------------------------------------------
(* What lies around a frame, and the frame *)

LEMMA Sides ==
  ASSUME NEW S, NEW read \in Seq(S), HasFlag(read)
  PROVE  /\ FirstFlag(read) \in 1..Len(read) /\ LastFlag(read) \in 1..Len(read)
         /\ FirstFlag(read) <= LastFlag(read) /\ Len(read) \in Nat
         /\ \A j \in 1..Len(read) : Flagged(read[j]) =>
              FirstFlag(read) <= j /\ j <= LastFlag(read)
         /\ Left(read) \in Seq(S) /\ Len(Left(read)) = FirstFlag(read) - 1
         /\ \A i \in 1..(FirstFlag(read) - 1) : Left(read)[i] = read[i]
         /\ Right(read) \in Seq(S) /\ Len(Right(read)) = Len(read) - LastFlag(read)
         /\ \A i \in 1..(Len(read) - LastFlag(read)) : Right(read)[i] = read[LastFlag(read) + i]
<1>. DEFINE f == FirstFlag(read)
            l == LastFlag(read)
<1>1. /\ f \in 1..Len(read) /\ l \in 1..Len(read) /\ Len(read) \in Nat /\ f <= l
      /\ \A j \in 1..Len(read) : Flagged(read[j]) => f <= j /\ j <= l
  BY FirstFlagLeast, LastFlagGreatest DEF FlagAt
<1>2. \A i \in 1..Len(read) : read[i] \in S
  OBVIOUS
<1>. HIDE DEF f, l
<1>3. /\ Left(read) \in Seq(S) /\ Len(Left(read)) = f - 1
      /\ \A i \in 1..(f - 1) : Left(read)[i] = read[i]
  <2>1. \A i \in 1..(f - 1) : read[i] \in S
    BY <1>1, <1>2
  <2>. QED
    BY <1>1, <2>1, SubSeqProperties DEF Left, f
<1>4. /\ Right(read) \in Seq(S) /\ Len(Right(read)) = Len(read) - l
      /\ \A i \in 1..(Len(read) - l) : Right(read)[i] = read[l + i]
  <2>1. \A i \in (l + 1)..Len(read) : read[i] \in S
    BY <1>1, <1>2
  <2>. QED
    BY <1>1, <2>1, SubSeqProperties DEF Right, l
<1>. QED
  BY <1>1, <1>3, <1>4 DEF f, l

LEMMA Around ==
  ASSUME NEW S, NEW read \in Seq(S), HasFlag(read)
  PROVE  /\ Left(read) \in Seq(S) /\ Right(read) \in Seq(S) /\ Outer(read) \in Seq(S)
         /\ FrameBytes(read) \in Seq(S)
         /\ \A i \in DOMAIN Left(read) : ~Flagged(Left(read)[i])
         /\ \A i \in DOMAIN Right(read) : ~Flagged(Right(read)[i])
         /\ \A i \in DOMAIN Outer(read) : ~Flagged(Outer(read)[i])
<1>. DEFINE f == FirstFlag(read)
            l == LastFlag(read)
<1>1. /\ f \in 1..Len(read) /\ l \in 1..Len(read) /\ Len(read) \in Nat
      /\ \A j \in 1..Len(read) : Flagged(read[j]) => f <= j /\ j <= l
  BY Sides
<1>2. \A i \in 1..Len(read) : read[i] \in S
  OBVIOUS
<1>3. /\ Left(read) \in Seq(S) /\ Len(Left(read)) = f - 1
      /\ \A i \in 1..(f - 1) : Left(read)[i] = read[i]
  BY Sides
<1>4. /\ Right(read) \in Seq(S) /\ Len(Right(read)) = Len(read) - l
      /\ \A i \in 1..(Len(read) - l) : Right(read)[i] = read[l + i]
  BY Sides
<1>. HIDE DEF f, l
<1>5. FrameBytes(read) \in Seq(S)
  <2>1. \A i \in f..l : read[i] \in S
    BY <1>1, <1>2
  <2>. QED
    BY <1>1, <2>1, SubSeqProperties DEF FrameBytes, f, l
<1>6. \A i \in DOMAIN Left(read) : ~Flagged(Left(read)[i])
  BY <1>1, <1>3
<1>7. \A i \in DOMAIN Right(read) : ~Flagged(Right(read)[i])
  BY <1>1, <1>4
<1>8. /\ Outer(read) \in Seq(S) /\ Len(Outer(read)) = Len(Left(read)) + Len(Right(read))
      /\ \A i \in 1..(Len(Left(read)) + Len(Right(read))) : Outer(read)[i] =
           IF i <= Len(Left(read)) THEN Left(read)[i] ELSE Right(read)[i - Len(Left(read))]
  BY <1>3, <1>4, ConcatProperties DEF Outer
<1>9. \A i \in DOMAIN Outer(read) : ~Flagged(Outer(read)[i])
  BY <1>3, <1>4, <1>6, <1>7, <1>8, SMTT(30)
<1>. QED
  BY <1>3, <1>4, <1>5, <1>6, <1>7, <1>8, <1>9

-----------------------------------------------------------------------------
(* The inductive invariant *)

Octets == {Byte(b) : b \in 0..255}
Text == {s \in Octets : ~Flagged(s) /\ s.byte # NotText}
OnTheLine(sent) == Octets \cup {Packet(a, noise) : a \in sent, noise \in Noises}
InTheLog(sent) == Text \cup UNION {Reports(a.block) : a \in sent}
Shown(sent) == UNION {ParseCommandResponse(a.block) \cup Telemetry(a.block) : a \in sent}

Control ==
  /\ mode \in {"idle", "commanding", "connecting", "polling"}
  /\ tagged \in BOOLEAN /\ framed \in BOOLEAN /\ clear \in BOOLEAN /\ repeated \in BOOLEAN
  /\ command # None =>
       command.id \in 1..(NumCmdCallbacks - 1) /\ Len(command.argument) <= 1

Satellite ==
  /\ calls \in 0..MaxCalls
  /\ due \subseteq answers /\ \A a \in answers : a.call \in 1..calls
  /\ written \in Seq(Octets)

LineGenuine == line \in Seq(OnTheLine(answers))
LogGenuine == log \in Seq(InTheLog(answers))

\* a result stays until the next call is made
ReturnedGenuine ==
  /\ mode # "idle" => ~framed
  /\ framed => returned \in Shown(answers)

IInv == Control /\ Satellite /\ LineGenuine /\ LogGenuine /\ ReturnedGenuine

LEMMA InvariantImplies == IInv => TypeOK /\ AnswersGenuine
<1>. SUFFICES ASSUME IInv PROVE TypeOK /\ AnswersGenuine
  OBVIOUS
<1>1. \A i \in DOMAIN log : log[i] \in InTheLog(answers)
  BY DEF IInv, LogGenuine
<1>2. ASSUME NEW s \in Text PROVE s.kind = "byte" /\ s.byte \notin {Flag, NotText}
  BY DEF Text, Octets, Byte, Flagged, IsPacket
<1>3. ASSUME NEW a \in answers, NEW r \in Reports(a.block)
      PROVE  \/ r.kind = "none"
             \/ r.kind = "response" /\ r \in ParseCommandResponse(a.block)
  BY DEF Reports, None, ParseCommandResponse
<1>4. ASSUME NEW i \in DOMAIN log
      PROVE  /\ \/ log[i].kind \in {"none", "response"}
                \/ log[i].kind = "byte" /\ log[i].byte \notin {Flag, NotText}
             /\ log[i].kind = "response" =>
                  \E a \in answers : log[i] \in ParseCommandResponse(a.block)
  <2>1. CASE log[i] \in Text
    BY <1>2, <2>1
  <2>2. CASE \E a \in answers : log[i] \in Reports(a.block)
    BY <1>3, <2>2
  <2>. QED
    BY <1>1, <2>1, <2>2 DEF InTheLog
<1>5. TypeOK
  BY <1>4 DEF IInv, Control, Satellite, TypeOK
<1>6. AnswersGenuine
  BY <1>4 DEF IInv, ReturnedGenuine, Shown, AnswersGenuine
<1>. QED
  BY <1>5, <1>6

LEMMA IInvInit == Init => IInv
<1>. SUFFICES ASSUME Init PROVE IInv
  OBVIOUS
<1>1. Control
  BY DEF Init, Control
<1>2. Satellite /\ ReturnedGenuine
  BY SessionAssumption, EmptySeq DEF Init, Satellite, ReturnedGenuine
<1>3. LineGenuine /\ LogGenuine
  BY EmptySeq DEF Init, LineGenuine, LogGenuine
<1>. QED
  BY <1>1, <1>2, <1>3 DEF IInv

\* What was genuine stays so when the satellite decides on another answer.
LEMMA MoreAnswers ==
  ASSUME NEW A, NEW B, A \subseteq B
  PROVE  /\ \A s \in Seq(OnTheLine(A)) : s \in Seq(OnTheLine(B))
         /\ \A s \in Seq(InTheLog(A)) : s \in Seq(InTheLog(B))
         /\ Shown(A) \subseteq Shown(B)
<1>1. OnTheLine(A) \subseteq OnTheLine(B)
  BY DEF OnTheLine
<1>2. InTheLog(A) \subseteq InTheLog(B)
  BY DEF InTheLog
<1>3. Shown(A) \subseteq Shown(B)
  BY DEF Shown
<1>. QED
  BY <1>1, <1>2, <1>3, SeqMonotonic

\* The bytes of a read that can be written to the log, unless they hold a flag.
LEMMA DecodedText ==
  ASSUME NEW A, NEW s \in Seq(OnTheLine(A)), Decodes(s),
         \A i \in DOMAIN s : ~Flagged(s[i])
  PROVE  s \in Seq(InTheLog(A))
<1>1. \A i \in 1..Len(s) : s[i] \in OnTheLine(A)
  OBVIOUS
<1>2. ASSUME NEW i \in 1..Len(s) PROVE s[i] \in Text
  <2>1. s[i] \in OnTheLine(A) /\ ~IsPacket(s[i]) /\ s[i].byte # NotText /\ ~Flagged(s[i])
    BY <1>1 DEF Decodes
  <2>. QED
    BY <2>1 DEF OnTheLine, Packet, IsPacket, Text
<1>3. s \in [1..Len(s) -> InTheLog(A)] /\ Len(s) \in Nat
  BY <1>2 DEF InTheLog
<1>. QED
  BY <1>3, SeqDef

\* A frame that is accepted is one packet, and holds the block of its answer.
LEMMA DecodedBlock ==
  ASSUME NEW A, NEW s \in Seq(OnTheLine(A)), NEW d \in DecodeFrame(s)
  PROVE  \E a \in A : d = a.block
<1>1. Len(s) = 1 /\ IsPacket(s[1]) /\ d = s[1].of.block
  BY DEF DecodeFrame
<1>2. s[1] \in OnTheLine(A)
  BY <1>1
<1>3. PICK a \in A, noise \in Noises : s[1] = Packet(a, noise)
  BY <1>1, <1>2 DEF OnTheLine, Octets, Byte, IsPacket
<1>. QED
  BY <1>1, <1>3 DEF Packet

\* A read takes what is on the line, and leaves nothing else on it.
LEMMA ReadFrom ==
  ASSUME NEW A, line \in Seq(OnTheLine(A)), NEW read \in Reads
  PROVE  /\ read \in Seq(OnTheLine(A))
         /\ Read(read) => line' \in Seq(OnTheLine(A))
<1>. DEFINE S == OnTheLine(A)
<1>1. Byte(Flag) \in S /\ Byte(NotText) \in S
  BY DEF OnTheLine, Octets, Flag, NotText
<1>2. line \in Seq(S)
  OBVIOUS
<1>. HIDE DEF S
<1>3. <<Byte(Flag), Byte(NotText)>> \in Seq(S) /\ <<Byte(NotText), Byte(Flag)>> \in Seq(S)
      /\ <<>> \in Seq(S)
  BY <1>1
<1>4. read \in Seq(S)
  <2>1. CASE read = line
    BY <1>2, <2>1
  <2>2. CASE line # <<>> /\ read = Halved
    <3>1. \A i \in 1..(Len(line) - 1) : line[i] \in S
      BY <1>2
    <3>2. SubSeq(line, 1, Len(line) - 1) \in Seq(S)
      BY <1>2, <3>1, SubSeqProperties
    <3>. QED
      BY <1>3, <2>2, <3>2, ConcatProperties DEF Halved
  <2>. QED
    BY <2>1, <2>2 DEF Reads
<1>. QED
  BY <1>3, <1>4 DEF Read, S

LEMMA ReadGenuine ==
  ASSUME LineGenuine, NEW read \in Reads
  PROVE  /\ read \in Seq(OnTheLine(answers))
         /\ Read(read) => line' \in Seq(OnTheLine(answers))
BY ReadFrom DEF LineGenuine

-----------------------------------------------------------------------------
(* The steps *)

LEMMA SendAnswerStep == IInv /\ SendAnswer => IInv'
<1>. SUFFICES ASSUME IInv, SendAnswer PROVE IInv'
  OBVIOUS
<1>1. PICK a \in due, noise \in Noises :
        due' = due \ {a} /\ line' = Append(line, Arriving(a, noise))
  BY DEF SendAnswer
<1>2. UNCHANGED <<mode, command, tagged, log, returned, framed, written,
                  calls, answers, clear, repeated>>
  BY DEF SendAnswer, result, history
<1>3. Control' /\ ReturnedGenuine' /\ LogGenuine'
  BY <1>2 DEF IInv, Control, ReturnedGenuine, LogGenuine
<1>4. Satellite'
  BY <1>1, <1>2 DEF IInv, Satellite
<1>5. Arriving(a, noise) \in OnTheLine(answers)
  <2>1. a \in answers
    BY DEF IInv, Satellite
  <2>2. Byte(NotText) \in Octets
    BY DEF Octets, NotText
  <2>. QED
    BY <2>1, <2>2 DEF Arriving, OnTheLine
<1>6. LineGenuine'
  BY <1>1, <1>2, <1>5, AppendProperties DEF IInv, LineGenuine
<1>. QED
  BY <1>3, <1>4, <1>6 DEF IInv

\* A task writes one byte of its text.
LEMMA ByteWritten ==
  ASSUME IInv, WriteLog
  PROVE  \E x \in Octets : written' = Append(written, x) /\ line' = Append(line, x)
<1>1. PICK text \in LogTexts :
        /\ Len(written) < Len(text)
        /\ written' = Append(written, Byte(text[Len(written) + 1]))
        /\ line' = Append(line, Byte(text[Len(written) + 1]))
  BY DEF WriteLog
<1>2. text[Len(written) + 1] \in 0..255
  <2>1. text \in Seq(0..255)
    BY SessionAssumption DEF NotText
  <2>2. Len(written) \in Nat
    BY DEF IInv, Satellite
  <2>3. Len(written) + 1 \in 1..Len(text)
    <3>1. Len(text) \in Nat
      BY <2>1
    <3>. QED
      BY <1>1, <2>2, <3>1
  <2>. QED
    BY <2>1, <2>3, ElementOfSeq, SMTT(30)
<1>. QED
  BY <1>1, <1>2 DEF Octets

LEMMA WriteLogStep == IInv /\ WriteLog => IInv'
<1>. SUFFICES ASSUME IInv, WriteLog PROVE IInv'
  OBVIOUS
<1>1. PICK x \in Octets : written' = Append(written, x) /\ line' = Append(line, x)
  BY ByteWritten
<1>2. UNCHANGED <<mode, command, tagged, log, returned, framed, due,
                  calls, answers, clear, repeated>>
  BY DEF WriteLog, result, history
<1>3. Control' /\ ReturnedGenuine' /\ LogGenuine'
  BY <1>2 DEF IInv, Control, ReturnedGenuine, LogGenuine
<1>4. Satellite'
  BY <1>1, <1>2, AppendProperties DEF IInv, Satellite
<1>5. LineGenuine'
  <2>1. x \in OnTheLine(answers)
    BY DEF OnTheLine
  <2>. QED
    BY <1>1, <1>2, <2>1, AppendProperties DEF IInv, LineGenuine
<1>. QED
  BY <1>3, <1>4, <1>5 DEF IInv

LEMMA RefuseCommandStep == IInv /\ RefuseCommand => IInv'
<1>. SUFFICES ASSUME IInv, RefuseCommand PROVE IInv'
  OBVIOUS
<1>1. /\ UNCHANGED <<mode, command, tagged, line, log, due, written,
                     calls, answers, clear, repeated>>
      /\ framed' = FALSE
  BY DEF RefuseCommand, satellite, history
<1>2. Control' /\ Satellite'
  BY <1>1 DEF IInv, Control, Satellite
<1>3. LineGenuine' /\ LogGenuine' /\ ReturnedGenuine'
  BY <1>1 DEF IInv, LineGenuine, LogGenuine, ReturnedGenuine
<1>. QED
  BY <1>2, <1>3 DEF IInv

\* What the operator types becomes a command of the enumeration with at most one
\* argument, or nothing is sent.
LEMMA CommandsSent ==
  ASSUME NEW a \in Arguments
  PROVE  LET g == GenerateCommand(a)
         IN  /\ g.tagged \in BOOLEAN
             /\ g.command.kind = "command" /\ g.command.id # CmdEndOfFrame =>
                  /\ g.command.id \in 1..(NumCmdCallbacks - 1)
                  /\ Len(g.command.argument) <= 1
<1>. DEFINE g == GenerateCommand(a)
<1>1. a.command \in 0..NumCmdCallbacks
  BY SessionAssumption
<1>2. ASSUME NEW args, Len(args) \in 1..2, Create(a.command, args).kind = "command",
             a.command # CmdEndOfFrame,
             \A n \in 0..1 : n <= Len(args) => Len(SubSeq(args, 1, n)) <= 1
      PROVE  /\ Create(a.command, args).id \in 1..(NumCmdCallbacks - 1)
             /\ Len(Create(a.command, args).argument) <= 1
  <2>. DEFINE n == Arity(a.command)
  <2>1. n \in {0, 1, 3}
    BY DEF Arity
  <2>2. a.command # NumCmdCallbacks /\ Len(args) \in n..(n + 1)
    BY <1>2 DEF Create, Raised
  <2>3. n \in 0..1 /\ n <= Len(args)
    <3>. DEFINE l == Len(args)
    <3>1. l \in 1..2 /\ l \in n..(n + 1)
      BY <1>2, <2>2
    <3>. HIDE DEF l, n
    <3>2. n \in 0..1 /\ n <= l
      BY <2>1, <3>1
    <3>. QED
      BY <3>2 DEF l
  <2>4. /\ Create(a.command, args).id = a.command
        /\ Create(a.command, args).argument = SubSeq(args, 1, n)
    BY <1>2 DEF Create, Raised
  <2>. HIDE DEF n
  <2>. QED
    BY <1>1, <1>2, <2>2, <2>3, <2>4 DEF NumCmdCallbacks, CmdEndOfFrame
<1>3. ASSUME NEW x, NEW y
      PROVE  /\ \A n \in 0..1 : Len(SubSeq(<<x>>, 1, n)) <= 1
             /\ \A n \in 0..1 : Len(SubSeq(<<x, y>>, 1, n)) <= 1
  <2>1. <<x>> \in Seq({x, y}) /\ <<x, y>> \in Seq({x, y})
    OBVIOUS
  <2>2. ASSUME NEW s \in Seq({x, y}), NEW n \in 0..1, Len(s) >= 1
        PROVE  Len(SubSeq(s, 1, n)) <= 1
    <3>1. \A i \in 1..n : s[i] \in {x, y}
      BY <2>2
    <3>. QED
      BY <3>1, SubSeqProperties
  <2>. QED
    BY <2>1, <2>2
<1>4. g.tagged \in BOOLEAN
  BY DEF GenerateCommand
<1>5. ASSUME g.command.kind = "command", g.command.id # CmdEndOfFrame
      PROVE  /\ g.command.id \in 1..(NumCmdCallbacks - 1)
             /\ Len(g.command.argument) <= 1
  <2>. DEFINE two == <<a.lnp \o a.rtc, a.timestamp>>
              one == <<a.timestamp>>
  <2>1. g.command \in {None, Create(a.command, two), Create(a.command, one)}
    BY DEF GenerateCommand
  <2>2. g.command # None
    BY <1>5 DEF None
  <2>3. a.command # CmdEndOfFrame
    <3>1. ASSUME NEW args, Create(a.command, args).kind = "command"
          PROVE  Create(a.command, args).id = a.command
      BY <3>1 DEF Create, Raised
    <3>. HIDE DEF g, two, one
    <3>. QED
      BY <1>5, <2>1, <2>2, <3>1
  <2>4. CASE g.command = Create(a.command, two)
    <3>1. Len(two) = 2 /\ \A n \in 0..1 : Len(SubSeq(two, 1, n)) <= 1
      BY <1>3
    <3>. HIDE DEF g, two
    <3>. QED
      BY <1>2, <1>5, <2>3, <2>4, <3>1
  <2>5. CASE g.command = Create(a.command, one)
    <3>1. Len(one) = 1 /\ \A n \in 0..1 : Len(SubSeq(one, 1, n)) <= 1
      BY <1>3
    <3>. HIDE DEF g, one
    <3>. QED
      BY <1>2, <1>5, <2>3, <2>5, <3>1
  <2>. HIDE DEF g, two, one
  <2>. QED
    BY <2>1, <2>2, <2>4, <2>5
<1>. QED
  BY <1>4, <1>5

\* A call counts itself, and what the satellite decides to answer answers it.
LEMMA CallMade ==
  ASSUME IInv, NEW possible, \A a \in possible : a.call = calls + 1,
         Hear(possible), Open, Count, UNCHANGED <<log, written>>
  PROVE  /\ clear' \in BOOLEAN
         /\ Satellite' /\ LineGenuine' /\ LogGenuine' /\ ReturnedGenuine'
<1>1. /\ answers \subseteq answers' /\ due' \subseteq answers'
      /\ \A a \in answers' : a \in answers \/ a.call = calls + 1
  BY DEF Hear, IInv, Satellite
<1>2. calls' = calls + 1 /\ calls \in Nat /\ calls' \in 0..MaxCalls
  BY SessionAssumption DEF Count, IInv, Satellite
<1>3. \A a \in answers' : a.call \in 1..calls'
  <2>1. \A a \in answers : a.call \in 1..calls
    BY DEF IInv, Satellite
  <2>. QED
    BY <1>1, <1>2, <2>1
<1>4. Satellite'
  BY <1>1, <1>2, <1>3 DEF IInv, Satellite
<1>5. line' \in Seq(OnTheLine(answers))
  BY EmptySeq DEF Open, IInv, LineGenuine
<1>6. LineGenuine' /\ LogGenuine'
  BY <1>1, <1>5, MoreAnswers DEF IInv, LineGenuine, LogGenuine
<1>7. ReturnedGenuine'
  BY DEF Open, ReturnedGenuine
<1>8. clear' \in BOOLEAN
  BY DEF Count, NothingOutstanding
<1>. QED
  BY <1>4, <1>6, <1>7, <1>8

LEMMA SendCommandStep == IInv /\ SendCommand => IInv'
<1>. SUFFICES ASSUME IInv, SendCommand PROVE IInv'
  OBVIOUS
<1>1. PICK a \in Arguments :
        LET g == GenerateCommand(a)
        IN  /\ g.command.kind = "command" /\ g.command.id # CmdEndOfFrame
            /\ command' = g.command /\ tagged' = g.tagged
            /\ Hear(IF g.command.id = CmdDownlinkTelem THEN TelemetryAnswers(calls + 1)
                    ELSE ResponseAnswers(calls + 1, g.command.id))
  BY DEF SendCommand
<1>. DEFINE id == GenerateCommand(a).command.id
            possible == IF id = CmdDownlinkTelem THEN TelemetryAnswers(calls + 1)
                        ELSE ResponseAnswers(calls + 1, id)
<1>2. Hear(possible) /\ Open /\ Count
  BY <1>1 DEF SendCommand
<1>3. mode' = "commanding" /\ UNCHANGED <<log, written, repeated>>
  BY DEF SendCommand
<1>4. /\ \A b \in TelemetryAnswers(calls + 1) : b.call = calls + 1
      /\ \A b \in ResponseAnswers(calls + 1, id) : b.call = calls + 1
  BY DEF TelemetryAnswers, ResponseAnswers
<1>5. \A b \in possible : b.call = calls + 1
  BY <1>4
<1>. HIDE DEF possible
<1>6. clear' \in BOOLEAN /\ Satellite' /\ LineGenuine' /\ LogGenuine' /\ ReturnedGenuine'
  BY <1>2, <1>3, <1>5, CallMade
<1>7. Control'
  <2>1. tagged' \in BOOLEAN /\ command'.id \in 1..(NumCmdCallbacks - 1)
        /\ Len(command'.argument) <= 1
    BY <1>1, CommandsSent
  <2>2. framed' \in BOOLEAN
    BY <1>2 DEF Open
  <2>. QED
    BY <1>3, <1>6, <2>1, <2>2 DEF IInv, Control
<1>. QED
  BY <1>6, <1>7 DEF IInv

LEMMA SendConnRequestStep == IInv /\ SendConnRequest => IInv'
<1>. SUFFICES ASSUME IInv, SendConnRequest PROVE IInv'
  OBVIOUS
<1>1. Hear({AckAnswer(calls + 1)}) /\ Open /\ Count
  BY DEF SendConnRequest
<1>2. mode' = "connecting" /\ UNCHANGED <<command, tagged, log, written, repeated>>
  BY DEF SendConnRequest
<1>3. \A a \in {AckAnswer(calls + 1)} : a.call = calls + 1
  BY DEF AckAnswer
<1>4. clear' \in BOOLEAN /\ Satellite' /\ LineGenuine' /\ LogGenuine' /\ ReturnedGenuine'
  BY <1>1, <1>2, <1>3, CallMade
<1>5. framed' \in BOOLEAN
  BY <1>1 DEF Open
<1>6. Control'
  BY <1>2, <1>4, <1>5 DEF IInv, Control
<1>. QED
  BY <1>4, <1>6 DEF IInv

LEMMA StartPollStep == IInv /\ StartPoll => IInv'
<1>. SUFFICES ASSUME IInv, StartPoll PROVE IInv'
  OBVIOUS
<1>1. /\ mode' = "polling" /\ line' \in {line, <<>>} /\ framed' = FALSE
      /\ UNCHANGED <<command, tagged, log, due, written, calls, answers, clear, repeated>>
  BY DEF StartPoll, Open, satellite, history
<1>2. Control' /\ Satellite'
  BY <1>1 DEF IInv, Control, Satellite
<1>3. LineGenuine' /\ LogGenuine' /\ ReturnedGenuine'
  BY <1>1, EmptySeq DEF IInv, LineGenuine, LogGenuine, ReturnedGenuine
<1>. QED
  BY <1>2, <1>3 DEF IInv

LEMMA StopPollStep == IInv /\ StopPoll => IInv'
<1>. SUFFICES ASSUME IInv, StopPoll PROVE IInv'
  OBVIOUS
<1>1. /\ mode = "polling" /\ mode' = "idle"
      /\ UNCHANGED <<command, tagged, line, log, framed, due, written,
                     calls, answers, clear, repeated>>
  BY DEF StopPoll, satellite, history
<1>2. Control' /\ Satellite'
  BY <1>1 DEF IInv, Control, Satellite
<1>3. LineGenuine' /\ LogGenuine' /\ ReturnedGenuine'
  BY <1>1 DEF IInv, LineGenuine, LogGenuine, ReturnedGenuine
<1>. QED
  BY <1>2, <1>3 DEF IInv

\* What a frame is parsed as was read from an answer's block.
LEMMA FrameShown ==
  ASSUME NEW A, NEW read \in Seq(OnTheLine(A)), HasFlag(read),
         command.id # CmdExecObcReset
  PROVE  Results(read) \subseteq Shown(A)
<1>1. FrameBytes(read) \in Seq(OnTheLine(A))
  BY Around
<1>2. ASSUME NEW d \in DecodeFrame(FrameBytes(read)) PROVE OfFrame(d) \subseteq Shown(A)
  <2>1. PICK a \in A : d = a.block
    BY <1>1, DecodedBlock
  <2>2. OfFrame(d) \subseteq ParseCommandResponse(d) \cup Telemetry(d)
    BY DEF OfFrame
  <2>. QED
    BY <2>1, <2>2 DEF Shown
<1>. QED
  BY <1>2 DEF Results

LEMMA ReadAnswerStep == IInv /\ ReadAnswer => IInv'
<1>. SUFFICES ASSUME IInv, ReadAnswer PROVE IInv'
  OBVIOUS
<1>1. PICK read \in Reads :
        /\ Read(read)
        /\ returned' \in OrNone(Results(read))
        /\ framed' = (/\ HasFlag(read) /\ command.id # CmdExecObcReset
                      /\ returned' # None)
        /\ log' = log \o Logged(read)
  BY DEF ReadAnswer
<1>2. /\ mode' = "idle" /\ command' = None /\ tagged' = FALSE
      /\ UNCHANGED <<due, written, calls, answers, clear, repeated>>
  BY DEF ReadAnswer, satellite, history
<1>3. read \in Seq(OnTheLine(answers)) /\ line' \in Seq(OnTheLine(answers))
  BY <1>1, ReadGenuine DEF IInv
<1>4. Control' /\ Satellite'
  <2>1. framed' \in BOOLEAN
    BY <1>1
  <2>. QED
    BY <1>2, <2>1 DEF IInv, Control, Satellite
<1>5. LogGenuine'
  <2>1. Logged(read) \in Seq(InTheLog(answers))
    <3>1. CASE HasFlag(read) /\ Decodes(Outer(read))
      <4>1. /\ Outer(read) \in Seq(OnTheLine(answers))
            /\ \A i \in DOMAIN Outer(read) : ~Flagged(Outer(read)[i])
        BY <1>3, <3>1, Around
      <4>2. Outer(read) \in Seq(InTheLog(answers))
        BY <3>1, <4>1, DecodedText
      <4>. QED
        BY <4>2, EmptySeq DEF Logged
    <3>2. CASE ~(HasFlag(read) /\ Decodes(Outer(read)))
      BY <3>2, EmptySeq DEF Logged
    <3>. QED
      BY <3>1, <3>2
  <2>2. log \in Seq(InTheLog(answers))
    BY DEF IInv, LogGenuine
  <2>3. log' \in Seq(InTheLog(answers))
    BY <1>1, <2>1, <2>2, ConcatProperties
  <2>. QED
    BY <1>2, <2>3 DEF LogGenuine
<1>6. ReturnedGenuine'
  <2>1. ASSUME framed' PROVE returned' \in Shown(answers)
    <3>1. HasFlag(read) /\ command.id # CmdExecObcReset /\ returned' # None
      BY <1>1, <2>1
    <3>2. returned' \in Results(read)
      BY <1>1, <3>1 DEF OrNone
    <3>. QED
      BY <1>3, <3>1, <3>2, FrameShown
  <2>. QED
    BY <1>2, <2>1 DEF ReturnedGenuine
<1>. QED
  BY <1>2, <1>3, <1>4, <1>5, <1>6 DEF IInv, LineGenuine

LEMMA RepeatedUnflagged ==
  ASSUME NEW S, NEW read \in Seq(S), ~HasFlag(read)
  PROVE  /\ Repeated(read) \in Seq(S)
         /\ \A i \in DOMAIN Repeated(read) : ~Flagged(Repeated(read)[i])
<1>. DEFINE first == SubSeq(read, 1, Len(read) - 1)
<1>1. \A i \in 1..Len(read) : read[i] \in S /\ ~Flagged(read[i])
  BY DEF HasFlag, FlagAt
<1>2. Len(read) \in Nat
  OBVIOUS
<1>3. \A i \in 1..(Len(read) - 1) : read[i] \in S
  BY <1>1, <1>2
<1>4. /\ first \in Seq(S)
      /\ \A i \in 1..Len(first) : ~Flagged(first[i])
  <2>1. /\ first \in Seq(S)
        /\ Len(first) = IF 1 <= Len(read) - 1 THEN Len(read) - 1 ELSE 0
        /\ \A i \in 1..(Len(read) - 1) : first[i] = read[i]
    BY <1>2, <1>3, SubSeqProperties
  <2>. QED
    BY <1>1, <1>2, <2>1
<1>. HIDE DEF first
<1>5. /\ first \o read \in Seq(S) /\ Len(first \o read) = Len(first) + Len(read)
      /\ \A i \in 1..(Len(first) + Len(read)) : (first \o read)[i] =
           IF i <= Len(first) THEN first[i] ELSE read[i - Len(first)]
  BY <1>4, ConcatProperties
<1>6. Repeated(read) = first \o read
  BY DEF Repeated, first
<1>7. Len(first) \in Nat
  BY <1>4
<1>8. \A i \in 1..(Len(first) + Len(read)) : ~Flagged((first \o read)[i])
  BY <1>1, <1>2, <1>4, <1>5, <1>7
<1>9. DOMAIN (first \o read) = 1..(Len(first) + Len(read))
  BY <1>5
<1>. QED
  BY <1>5, <1>6, <1>8, <1>9

LEMMA ReadAckStep == IInv /\ ReadAck => IInv'
<1>. SUFFICES ASSUME IInv, ReadAck PROVE IInv'
  OBVIOUS
<1>1. PICK read \in Reads :
        LET outer == IF HasFlag(read) THEN Outer(read) ELSE Repeated(read)
        IN  /\ Read(read)
            /\ log' = IF Decodes(outer) THEN log \o outer ELSE log
            /\ repeated' = (repeated \/ ~HasFlag(read))
  BY DEF ReadAck
<1>2. /\ mode = "connecting" /\ mode' = "idle"
      /\ UNCHANGED <<command, tagged, framed, due, written, calls, answers, clear>>
  BY DEF ReadAck, satellite
<1>. DEFINE outer == IF HasFlag(read) THEN Outer(read) ELSE Repeated(read)
<1>3. read \in Seq(OnTheLine(answers)) /\ line' \in Seq(OnTheLine(answers))
  BY <1>1, ReadGenuine DEF IInv
<1>4. Control' /\ Satellite'
  <2>1. repeated' \in BOOLEAN
    BY <1>1
  <2>. QED
    BY <1>2, <2>1 DEF IInv, Control, Satellite
<1>5. LogGenuine'
  <2>1. /\ outer \in Seq(OnTheLine(answers))
        /\ \A i \in DOMAIN outer : ~Flagged(outer[i])
    BY <1>3, Around, RepeatedUnflagged
  <2>2. log' = IF Decodes(outer) THEN log \o outer ELSE log
    BY <1>1
  <2>3. log \in Seq(InTheLog(answers))
    BY DEF IInv, LogGenuine
  <2>. HIDE DEF outer
  <2>4. Decodes(outer) => outer \in Seq(InTheLog(answers))
    BY <2>1, DecodedText
  <2>5. log' \in Seq(InTheLog(answers))
    BY <2>2, <2>3, <2>4, ConcatProperties
  <2>. QED
    BY <1>2, <2>5 DEF LogGenuine
<1>6. LineGenuine' /\ ReturnedGenuine'
  BY <1>2, <1>3 DEF IInv, LineGenuine, ReturnedGenuine
<1>. QED
  BY <1>4, <1>5, <1>6 DEF IInv

\* What poll writes of a read: text, and reports of answers.
LEMMA PolledGenuine ==
  ASSUME NEW A, NEW read \in Seq(OnTheLine(A)), NEW data_string \in Polled(read)
  PROVE  data_string \in Seq(InTheLog(A))
<1>1. CASE ~HasFlag(read)
  <2>1. data_string = read /\ Decodes(read)
    BY <1>1 DEF Polled
  <2>2. \A i \in DOMAIN read : ~Flagged(read[i])
    BY <1>1 DEF HasFlag, FlagAt
  <2>. QED
    BY <2>1, <2>2, DecodedText
<1>2. CASE HasFlag(read)
  <2>1. /\ Left(read) \in Seq(OnTheLine(A)) /\ Right(read) \in Seq(OnTheLine(A))
        /\ FrameBytes(read) \in Seq(OnTheLine(A))
        /\ \A i \in DOMAIN Left(read) : ~Flagged(Left(read)[i])
        /\ \A i \in DOMAIN Right(read) : ~Flagged(Right(read)[i])
    BY <1>2, Around
  <2>2. Decodes(Outer(read))
    BY <1>2 DEF Polled
  <2>3. PICK d \in DecodeFrame(FrameBytes(read)) :
          \E report \in Reports(d) : data_string = Left(read) \o <<report>> \o Right(read)
    BY <1>2, <2>2 DEF Polled
  <2>4. PICK report \in Reports(d) : data_string = Left(read) \o <<report>> \o Right(read)
    BY <2>3
  <2>5. Decodes(Left(read)) /\ Decodes(Right(read))
    <3>. DEFINE left == Left(read)
                right == Right(read)
    <3>1. Outer(read) = left \o right
      BY DEF Outer
    <3>2. left \in Seq(OnTheLine(A)) /\ right \in Seq(OnTheLine(A))
      BY <2>1
    <3>. HIDE DEF left, right
    <3>3. /\ Len(left) \in Nat /\ Len(right) \in Nat
          /\ DOMAIN left = 1..Len(left) /\ DOMAIN right = 1..Len(right)
      BY <3>2
    <3>4. /\ DOMAIN Outer(read) = 1..(Len(left) + Len(right))
          /\ \A i \in 1..(Len(left) + Len(right)) : Outer(read)[i] =
               IF i <= Len(left) THEN left[i] ELSE right[i - Len(left)]
      BY <3>1, <3>2, ConcatProperties
    <3>5. \A i \in 1..(Len(left) + Len(right)) :
            ~IsPacket(Outer(read)[i]) /\ Outer(read)[i].byte # NotText
      BY <2>2, <3>4 DEF Decodes
    <3>6. Decodes(left)
      <4>1. ASSUME NEW i \in 1..Len(left) PROVE left[i] = Outer(read)[i]
        BY <3>3, <3>4
      <4>2. 1..Len(left) \subseteq 1..(Len(left) + Len(right))
        BY <3>3
      <4>. QED
        BY <3>3, <3>5, <4>1, <4>2 DEF Decodes
    <3>7. Decodes(right)
      <4>1. ASSUME NEW i \in 1..Len(right)
            PROVE  /\ right[i] = Outer(read)[Len(left) + i]
                   /\ Len(left) + i \in 1..(Len(left) + Len(right))
        BY <3>3, <3>4
      <4>. QED
        BY <3>3, <3>5, <4>1 DEF Decodes
    <3>. QED
      BY <3>6, <3>7 DEF left, right
  <2>6. Left(read) \in Seq(InTheLog(A)) /\ Right(read) \in Seq(InTheLog(A))
    BY <2>1, <2>5, DecodedText
  <2>7. report \in InTheLog(A)
    <3>1. PICK a \in A : d = a.block
      BY <2>1, <2>3, DecodedBlock
    <3>. QED
      BY <2>4, <3>1 DEF InTheLog
  <2>8. <<report>> \in Seq(InTheLog(A))
    BY <2>7
  <2>9. Left(read) \o <<report>> \in Seq(InTheLog(A))
    BY <2>6, <2>8, ConcatProperties
  <2>. QED
    BY <2>4, <2>6, <2>9, ConcatProperties
<1>. QED
  BY <1>1, <1>2

LEMMA PollReadStep == IInv /\ PollRead => IInv'
<1>. SUFFICES ASSUME IInv, PollRead PROVE IInv'
  OBVIOUS
<1>1. PICK read \in Reads : Read(read) /\ \E data_string \in Polled(read) : log' = log \o data_string
  BY DEF PollRead
<1>2. PICK data_string \in Polled(read) : log' = log \o data_string
  BY <1>1
<1>3. UNCHANGED <<mode, command, tagged, returned, framed, due, written,
                  calls, answers, clear, repeated>>
  BY DEF PollRead, result, satellite, history
<1>4. read \in Seq(OnTheLine(answers)) /\ line' \in Seq(OnTheLine(answers))
  BY <1>1, ReadGenuine DEF IInv
<1>5. data_string \in Seq(InTheLog(answers))
  BY <1>4, PolledGenuine
<1>6. log' \in Seq(InTheLog(answers))
  BY <1>2, <1>5, ConcatProperties DEF IInv, LogGenuine
<1>7. Control' /\ Satellite'
  BY <1>3 DEF IInv, Control, Satellite
<1>8. LineGenuine' /\ LogGenuine' /\ ReturnedGenuine'
  BY <1>3, <1>4, <1>6 DEF IInv, LineGenuine, LogGenuine, ReturnedGenuine
<1>. QED
  BY <1>7, <1>8 DEF IInv

LEMMA PollRaisesStep == IInv /\ PollRaises => IInv'
<1>. SUFFICES ASSUME IInv, PollRaises PROVE IInv'
  OBVIOUS
<1>1. PICK read \in Reads : Read(read)
  BY DEF PollRaises
<1>2. /\ mode = "polling" /\ mode' = "idle"
      /\ UNCHANGED <<command, tagged, log, framed, due, written,
                     calls, answers, clear, repeated>>
  BY DEF PollRaises, satellite, history
<1>3. line' \in Seq(OnTheLine(answers))
  BY <1>1, ReadGenuine DEF IInv
<1>4. Control' /\ Satellite'
  BY <1>2 DEF IInv, Control, Satellite
<1>5. LineGenuine' /\ LogGenuine' /\ ReturnedGenuine'
  BY <1>2, <1>3 DEF IInv, LineGenuine, LogGenuine, ReturnedGenuine
<1>. QED
  BY <1>4, <1>5 DEF IInv

-----------------------------------------------------------------------------
(* The invariant holds of every behaviour *)

LEMMA Invariance == Spec => []IInv
<1>1. IInv /\ [Next]_vars => IInv'
  <2>. SUFFICES ASSUME IInv, [Next]_vars PROVE IInv'
    OBVIOUS
  <2>1. CASE SendAnswer
    BY <2>1, SendAnswerStep
  <2>2. CASE WriteLog
    BY <2>2, WriteLogStep
  <2>3. CASE RefuseCommand
    BY <2>3, RefuseCommandStep
  <2>4. CASE SendCommand
    BY <2>4, SendCommandStep
  <2>5. CASE ReadAnswer
    BY <2>5, ReadAnswerStep
  <2>6. CASE SendConnRequest
    BY <2>6, SendConnRequestStep
  <2>7. CASE ReadAck
    BY <2>7, ReadAckStep
  <2>8. CASE StartPoll
    BY <2>8, StartPollStep
  <2>9. CASE StopPoll
    BY <2>9, StopPollStep
  <2>10. CASE PollRead
    BY <2>10, PollReadStep
  <2>11. CASE PollRaises
    BY <2>11, PollRaisesStep
  <2>12. CASE UNCHANGED vars
    BY <2>12 DEF vars, result, satellite, history, IInv, Control, Satellite,
       LineGenuine, LogGenuine, ReturnedGenuine
  <2>. QED
    BY <2>1, <2>2, <2>3, <2>4, <2>5, <2>6, <2>7, <2>8, <2>9, <2>10, <2>11, <2>12 DEF Next
<1>. QED
  BY <1>1, IInvInit, PTL DEF Spec

\* Only text and reports get into the operator's log, and only commands of the
\* enumeration on the line (send_command, send_conn_request, poll).
THEOREM TypeCorrect == Spec => []TypeOK
<1>1. IInv => TypeOK
  BY InvariantImplies
<1>. QED
  BY <1>1, Invariance, PTL

\* Whatever else a read brings, what send_command takes from a frame and what
\* poll logs of one was read from an answer the satellite sent.
THEOREM AnswersAreGenuine == Spec => []AnswersGenuine
<1>1. IInv => AnswersGenuine
  BY InvariantImplies
<1>. QED
  BY <1>1, Invariance, PTL

-----------------------------------------------------------------------------
(* The order of the log *)

Plain(s) == s.kind = "byte" /\ s.byte \notin {Flag, NotText}

\* Every plain byte of t stands in w, and what stands before it in t before it.
Ordered(t, w) ==
  \A j \in 1..Len(t) : Plain(t[j]) =>
    \E l \in 1..Len(w) :
      /\ w[l] = t[j]
      /\ \A i \in 1..(j - 1) : Plain(t[i]) => \E k \in 1..(l - 1) : w[k] = t[i]

\* What was written is in the log or on the line, in the order it was written.
Ordering == ~repeated => Ordered(log \o line, written)

Anything(sent) == OnTheLine(sent) \cup InTheLog(sent)

LEMMA OrderedTrans ==
  ASSUME NEW S, NEW s \in Seq(S), NEW t \in Seq(S), NEW w \in Seq(S),
         Ordered(s, t), Ordered(t, w)
  PROVE  Ordered(s, w)
<1>. SUFFICES ASSUME NEW j \in 1..Len(s), Plain(s[j])
              PROVE  \E l \in 1..Len(w) :
                       /\ w[l] = s[j]
                       /\ \A i \in 1..(j - 1) : Plain(s[i]) => \E k \in 1..(l - 1) : w[k] = s[i]
  BY DEF Ordered
<1>1. PICK m \in 1..Len(t) :
        /\ t[m] = s[j]
        /\ \A i \in 1..(j - 1) : Plain(s[i]) => \E k \in 1..(m - 1) : t[k] = s[i]
  BY Zenon DEF Ordered
<1>2. Plain(t[m])
  BY <1>1
<1>3. PICK l \in 1..Len(w) :
        /\ w[l] = t[m]
        /\ \A i \in 1..(m - 1) : Plain(t[i]) => \E k \in 1..(l - 1) : w[k] = t[i]
  BY <1>2, Zenon DEF Ordered
<1>4. ASSUME NEW i \in 1..(j - 1), Plain(s[i])
      PROVE  \E k \in 1..(l - 1) : w[k] = s[i]
  <2>1. PICK k \in 1..(m - 1) : t[k] = s[i]
    BY <1>1, <1>4
  <2>2. Plain(t[k])
    BY <1>4, <2>1
  <2>. QED
    BY <1>3, <2>1, <2>2
<1>. QED
  BY <1>1, <1>3, <1>4

\* The same in front of both.
LEMMA OrderedBehind ==
  ASSUME NEW S, NEW a \in Seq(S), NEW t \in Seq(S), NEW w \in Seq(S), Ordered(t, w)
  PROVE  Ordered(a \o t, a \o w)
<1>. DEFINE n == Len(a)
<1>1. /\ n \in Nat /\ Len(t) \in Nat /\ Len(w) \in Nat
      /\ Len(a \o t) = n + Len(t) /\ Len(a \o w) = n + Len(w)
      /\ \A i \in 1..n : (a \o t)[i] = a[i] /\ (a \o w)[i] = a[i]
      /\ \A i \in 1..Len(t) : (a \o t)[n + i] = t[i]
      /\ \A i \in 1..Len(w) : (a \o w)[n + i] = w[i]
  BY ConcatProperties
<1>. HIDE DEF n
<1>. SUFFICES ASSUME NEW j \in 1..Len(a \o t), Plain((a \o t)[j])
              PROVE  \E l \in 1..Len(a \o w) :
                       /\ (a \o w)[l] = (a \o t)[j]
                       /\ \A i \in 1..(j - 1) : Plain((a \o t)[i]) =>
                            \E k \in 1..(l - 1) : (a \o w)[k] = (a \o t)[i]
  BY DEF Ordered
<1>2. CASE j \in 1..n
  <2>1. j \in 1..Len(a \o w) /\ (a \o w)[j] = (a \o t)[j]
    BY <1>1, <1>2
  <2>2. ASSUME NEW i \in 1..(j - 1) PROVE (a \o w)[i] = (a \o t)[i]
    <3>1. i \in 1..n
      BY <1>1, <1>2
    <3>. QED
      BY <1>1, <3>1
  <2>. QED
    BY <2>1, <2>2
<1>3. CASE j \notin 1..n
  <2>. DEFINE p == j - n
  <2>1. p \in 1..Len(t) /\ j = n + p
    BY <1>1, <1>3
  <2>. HIDE DEF p
  <2>2. (a \o t)[j] = t[p]
    BY <1>1, <2>1
  <2>3. PICK m \in 1..Len(w) :
          /\ w[m] = t[p]
          /\ \A i \in 1..(p - 1) : Plain(t[i]) => \E k \in 1..(m - 1) : w[k] = t[i]
    BY <2>1, <2>2, Zenon DEF Ordered
  <2>. DEFINE l == n + m
  <2>4. l \in 1..Len(a \o w) /\ (a \o w)[l] = (a \o t)[j]
    BY <1>1, <2>2, <2>3
  <2>5. ASSUME NEW i \in 1..(j - 1), Plain((a \o t)[i])
        PROVE  \E k \in 1..(l - 1) : (a \o w)[k] = (a \o t)[i]
    <3>1. CASE i \in 1..n
      <4>1. i \in 1..(l - 1) /\ (a \o w)[i] = (a \o t)[i]
        BY <1>1, <3>1
      <4>. QED
        BY <4>1
    <3>2. CASE i \notin 1..n
      <4>. DEFINE q == i - n
      <4>1. q \in 1..(p - 1) /\ q \in 1..Len(t) /\ i = n + q
        BY <1>1, <2>1, <3>2
      <4>. HIDE DEF q
      <4>2. (a \o t)[i] = t[q]
        BY <1>1, <4>1
      <4>3. PICK k \in 1..(m - 1) : w[k] = t[q]
        BY <2>3, <2>5, <4>1, <4>2
      <4>4. n + k \in 1..(l - 1) /\ k \in 1..Len(w)
        BY <1>1, <4>3
      <4>5. (a \o w)[n + k] = w[k]
        BY <1>1, <4>4
      <4>. QED
        BY <4>2, <4>3, <4>4, <4>5
    <3>. QED
      BY <3>1, <3>2
  <2>. HIDE DEF l
  <2>. QED
    BY <2>4, <2>5
<1>. QED
  BY <1>2, <1>3

\* What is not plain may follow.
LEMMA OrderedWithout ==
  ASSUME NEW S, NEW t \in Seq(S), NEW b \in Seq(S), NEW w, Ordered(t, w),
         \A i \in 1..Len(b) : ~Plain(b[i])
  PROVE  Ordered(t \o b, w)
<1>1. /\ Len(t) \in Nat /\ Len(b) \in Nat /\ Len(t \o b) = Len(t) + Len(b)
      /\ \A i \in 1..Len(t) : (t \o b)[i] = t[i]
      /\ \A i \in 1..Len(b) : (t \o b)[Len(t) + i] = b[i]
  BY ConcatProperties
<1>. SUFFICES ASSUME NEW j \in 1..Len(t \o b), Plain((t \o b)[j])
              PROVE  \E l \in 1..Len(w) :
                       /\ w[l] = (t \o b)[j]
                       /\ \A i \in 1..(j - 1) : Plain((t \o b)[i]) =>
                            \E k \in 1..(l - 1) : w[k] = (t \o b)[i]
  BY DEF Ordered
<1>2. j \in 1..Len(t)
  <2>. SUFFICES ASSUME j \notin 1..Len(t) PROVE FALSE
    OBVIOUS
  <2>. DEFINE p == j - Len(t)
  <2>1. p \in 1..Len(b) /\ j = Len(t) + p
    BY <1>1
  <2>. HIDE DEF p
  <2>2. (t \o b)[j] = b[p]
    BY <1>1, <2>1
  <2>. QED
    BY <2>1, <2>2
<1>3. PICK l \in 1..Len(w) :
        /\ w[l] = t[j]
        /\ \A i \in 1..(j - 1) : Plain(t[i]) => \E k \in 1..(l - 1) : w[k] = t[i]
  <2>1. Plain(t[j])
    BY <1>1, <1>2
  <2>. QED
    BY <1>2, <2>1, Zenon DEF Ordered
<1>4. (t \o b)[j] = t[j] /\ \A i \in 1..(j - 1) : (t \o b)[i] = t[i]
  <2>1. 1..(j - 1) \subseteq 1..Len(t)
    BY <1>1, <1>2
  <2>. QED
    BY <1>1, <1>2, <2>1
<1>. QED
  BY <1>3, <1>4

\* The same at the end of both.
LEMMA OrderedOn ==
  ASSUME NEW S, NEW t \in Seq(S), NEW w \in Seq(S), NEW x \in S, Ordered(t, w)
  PROVE  Ordered(Append(t, x), Append(w, x))
<1>. DEFINE u == Append(t, x)    v == Append(w, x)
<1>1. /\ Len(t) \in Nat /\ Len(u) = Len(t) + 1 /\ u[Len(t) + 1] = x
      /\ \A i \in 1..Len(t) : u[i] = t[i]
      /\ Len(w) \in Nat /\ Len(v) = Len(w) + 1 /\ v[Len(w) + 1] = x
      /\ \A i \in 1..Len(w) : v[i] = w[i]
  BY AppendProperties
<1>. HIDE DEF u, v
<1>2. ASSUME NEW j \in 1..Len(u), Plain(u[j])
      PROVE  \E l \in 1..Len(v) :
               /\ v[l] = u[j]
               /\ \A i \in 1..(j - 1) : Plain(u[i]) => \E k \in 1..(l - 1) : v[k] = u[i]
  <2>1. ASSUME NEW i \in 1..Len(t), Plain(u[i])
        PROVE  \E l \in 1..Len(w) :
                 /\ v[l] = u[i]
                 /\ \A h \in 1..(i - 1) : Plain(u[h]) => \E k \in 1..(l - 1) : v[k] = u[h]
    <3>1. u[i] = t[i] /\ Plain(t[i])
      BY <1>1, <2>1
    <3>2. PICK l \in 1..Len(w) :
            /\ w[l] = t[i]
            /\ \A h \in 1..(i - 1) : Plain(t[h]) => \E k \in 1..(l - 1) : w[k] = t[h]
      BY <3>1, Zenon DEF Ordered
    <3>3. /\ v[l] = w[l] /\ \A h \in 1..(i - 1) : u[h] = t[h]
          /\ \A k \in 1..(l - 1) : v[k] = w[k]
      <4>1. 1..(i - 1) \subseteq 1..Len(t) /\ 1..(l - 1) \subseteq 1..Len(w)
        BY <1>1
      <4>. QED
        BY <1>1, <4>1
    <3>. QED
      BY <3>1, <3>2, <3>3
  <2>2. CASE j \in 1..Len(t)
    <3>1. 1..Len(w) \subseteq 1..Len(v)
      BY <1>1
    <3>. QED
      BY <1>2, <2>1, <2>2, <3>1
  <2>3. CASE j \notin 1..Len(t)
    <3>1. j = Len(t) + 1
      BY <1>1, <2>3
    <3>. DEFINE m == Len(w) + 1
    <3>2. m \in 1..Len(v) /\ v[m] = u[j] /\ 1..(m - 1) = 1..Len(w) /\ 1..(j - 1) = 1..Len(t)
      BY <1>1, <3>1
    <3>. HIDE DEF m
    <3>3. \A i \in 1..(j - 1) : Plain(u[i]) => \E k \in 1..(m - 1) : v[k] = u[i]
      BY <2>1, <3>2
    <3>. QED
      BY <3>2, <3>3
  <2>. QED
    BY <2>2, <2>3
<1>. QED
  BY <1>2 DEF Ordered, u, v

\* The beginning of a sequence is ordered as the whole.
LEMMA OrderedPrefix ==
  ASSUME NEW t, NEW w, Len(t) \in Nat, Len(w) \in Nat, Len(t) <= Len(w),
         \A i \in 1..Len(t) : t[i] = w[i]
  PROVE  Ordered(t, w)
<1>. SUFFICES ASSUME NEW j \in 1..Len(t), Plain(t[j])
              PROVE  \E l \in 1..Len(w) :
                       /\ w[l] = t[j]
                       /\ \A i \in 1..(j - 1) : Plain(t[i]) => \E k \in 1..(l - 1) : w[k] = t[i]
  BY DEF Ordered
<1>1. j \in 1..Len(w) /\ w[j] = t[j]
  OBVIOUS
<1>2. \A i \in 1..(j - 1) : i \in 1..Len(t) /\ w[i] = t[i]
  OBVIOUS
<1>. QED
  BY <1>1, <1>2

\* What lies around a frame, and what is put in its place.
LEMMA OrderedParts ==
  ASSUME NEW S, NEW read \in Seq(S), HasFlag(read),
         NEW b \in Seq(S), \A i \in 1..Len(b) : ~Plain(b[i])
  PROVE  Ordered(Left(read) \o b \o Right(read), read)
<1>. DEFINE f == FirstFlag(read)    l == LastFlag(read)
            a == Left(read)         c == Right(read)
            t == Joined3(a, b, c)   q == f - 1 + Len(b)
<1>1. /\ f \in 1..Len(read) /\ l \in 1..Len(read) /\ f <= l /\ Len(read) \in Nat
      /\ a \in Seq(S) /\ Len(a) = f - 1 /\ \A i \in 1..(f - 1) : a[i] = read[i]
      /\ c \in Seq(S) /\ Len(c) = Len(read) - l
      /\ \A i \in 1..(Len(read) - l) : c[i] = read[l + i]
  BY Sides
<1>. HIDE DEF f, l, a, c
<1>2. /\ Len(t) = q + (Len(read) - l) /\ Len(b) \in Nat /\ q \in Nat
      /\ \A i \in 1..Len(a) : t[i] = a[i]
      /\ \A i \in 1..Len(b) : t[Len(a) + i] = b[i]
      /\ \A i \in 1..Len(c) : t[Len(a) + Len(b) + i] = c[i]
  <2>. HIDE DEF q
  <2>0. a \in Seq(S) /\ c \in Seq(S) /\ Len(b) \in Nat
    BY <1>1
  <2>1. /\ Len(t) = Len(a) + Len(b) + Len(c)
        /\ \A i \in 1..Len(a) : t[i] = a[i]
        /\ \A i \in 1..Len(b) : t[Len(a) + i] = b[i]
        /\ \A i \in 1..Len(c) : t[Len(a) + Len(b) + i] = c[i]
    <3>1. Holds3(t, a, b, c, S)
      BY <2>0, ThreeParts, Zenon
    <3>. QED
      BY <3>1, Zenon DEF Holds3
  <2>. HIDE DEF t
  <2>2. q = Len(a) + Len(b) /\ q \in Nat
    BY <1>1, <2>0 DEF q
  <2>. QED
    BY <1>1, <2>0, <2>1, <2>2
<1>3. /\ \A i \in 1..(f - 1) : t[i] = read[i]
      /\ \A i \in f..q : ~Plain(t[i])
      /\ \A i \in (q + 1)..Len(t) : t[i] = read[l + (i - q)]
  <2>. HIDE DEF t
  <2>1. \A i \in 1..(f - 1) : t[i] = read[i]
    BY <1>1, <1>2
  <2>2. ASSUME NEW i \in f..q PROVE ~Plain(t[i])
    <3>. DEFINE h == i - Len(a)
    <3>1. h \in 1..Len(b) /\ i = Len(a) + h
      BY <1>1, <1>2
    <3>. HIDE DEF h
    <3>2. t[i] = b[h]
      BY <1>2, <3>1
    <3>. QED
      BY <3>1, <3>2
  <2>3. ASSUME NEW i \in (q + 1)..Len(t) PROVE t[i] = read[l + (i - q)]
    <3>. DEFINE h == i - q
    <3>1. h \in 1..Len(c) /\ i = Len(a) + Len(b) + h /\ h \in 1..(Len(read) - l)
      BY <1>1, <1>2
    <3>. HIDE DEF h
    <3>2. t[i] = c[h]
      BY <1>2, <3>1
    <3>3. c[h] = read[l + h]
      BY <1>1, <3>1
    <3>. QED
      BY <3>2, <3>3 DEF h
  <2>. QED
    BY <2>1, <2>2, <2>3
<1>. HIDE DEF t
<1>. DEFINE place(i) == IF i < f THEN i ELSE l + (i - q)
<1>4. /\ f \in Nat /\ l \in Nat /\ q \in Nat /\ Len(read) \in Nat
      /\ f >= 1 /\ f <= l /\ l <= Len(read) /\ q >= f - 1
      /\ Len(t) \in Nat /\ Len(t) = q + (Len(read) - l)
  <2>1. q >= f - 1
    BY <1>1, <1>2
  <2>. HIDE DEF q, t
  <2>2. Len(t) = q + (Len(read) - l)
    BY <1>2, Zenon
  <2>. QED
    BY <1>1, <1>2, <2>1, <2>2
<1>. HIDE DEF q
<1>5. ASSUME NEW i \in 1..Len(t), Plain(t[i])
      PROVE  /\ place(i) \in 1..Len(read) /\ read[place(i)] = t[i]
             /\ i < f \/ i > q
  <2>1. i < f \/ i > q
    <3>. SUFFICES ASSUME i >= f, i <= q PROVE FALSE
      BY <1>1, <1>2
    <3>1. i \in f..q
      BY <1>4
    <3>. QED
      BY <1>3, <1>5, <3>1
  <2>2. CASE i < f
    <3>1. i \in 1..(f - 1) /\ i \in 1..Len(read)
      BY <1>4, <2>2
    <3>. QED
      BY <1>2, <1>3, <2>2, <3>1
  <2>3. CASE i > q
    <3>1. i \in (q + 1)..Len(t) /\ l + (i - q) \in 1..Len(read) /\ ~(i < f)
      BY <1>4, <2>3
    <3>. QED
      BY <1>3, <2>3, <3>1
  <2>. QED
    BY <2>1, <2>2, <2>3
<1>6. ASSUME NEW j \in 1..Len(t), Plain(t[j]), NEW i \in 1..(j - 1), Plain(t[i])
      PROVE  place(i) \in 1..(place(j) - 1) /\ read[place(i)] = t[i]
  <2>1. i \in 1..Len(t)
    BY <1>1, <1>2, <1>3
  <2>2. place(i) \in 1..Len(read) /\ read[place(i)] = t[i] /\ (i < f \/ i > q)
    BY <1>5, <1>6, <2>1
  <2>3. j < f \/ j > q
    BY <1>5, <1>6
  <2>4. place(i) < place(j)
    BY <1>4, <1>6, <2>1, <2>2, <2>3
  <2>5. place(j) \in Nat
    BY <1>5, <1>6
  <2>. HIDE DEF place
  <2>. QED
    BY <2>2, <2>4, <2>5
<1>. HIDE DEF place
<1>7. Ordered(t, read)
  BY <1>5, <1>6 DEF Ordered
<1>. QED
  BY <1>7, Zenon DEF Joined3, t, a, c

\* What is logged of a read without the frame's report.
LEMMA OrderedOuter ==
  ASSUME NEW S, NEW read \in Seq(S), HasFlag(read)
  PROVE  Ordered(Outer(read), read)
<1>1. Left(read) \in Seq(S) /\ <<>> \in Seq(S) /\ Len(<<>>) = 0
  BY Sides, EmptySeq
<1>2. \A i \in 1..Len(<<>>) : ~Plain(<<>>[i])
  BY <1>1
<1>3. Ordered(Left(read) \o <<>> \o Right(read), read)
  BY <1>1, <1>2, OrderedParts
<1>4. Left(read) \o <<>> = Left(read)
  BY <1>1, ConcatEmptySeq
<1>. QED
  BY <1>3, <1>4 DEF Outer

LEMMA HalfNotPlain ==
  /\ \A i \in 1..Len(<<Byte(Flag), Byte(NotText)>>) : ~Plain(<<Byte(Flag), Byte(NotText)>>[i])
  /\ \A i \in 1..Len(<<Byte(NotText), Byte(Flag)>>) : ~Plain(<<Byte(NotText), Byte(Flag)>>[i])
<1>1. ~Plain(Byte(Flag)) /\ ~Plain(Byte(NotText))
  BY DEF Plain, Byte
<1>. QED
  BY <1>1

LEMMA OrderedRead ==
  ASSUME IInv, NEW read \in Reads
  PROVE  Ordered(read, line)
<1>. DEFINE S == OnTheLine(answers)
<1>1. line \in Seq(S) /\ Len(line) \in Nat
  BY DEF IInv, LineGenuine
<1>2. Byte(Flag) \in S /\ Byte(NotText) \in S
  BY DEF OnTheLine, Octets, Flag, NotText
<1>. HIDE DEF S
<1>3. CASE read = line
  BY <1>1, <1>3, OrderedPrefix
<1>4. CASE line # <<>> /\ read = Halved
  <2>. DEFINE whole == SubSeq(line, 1, Len(line) - 1)
              half == <<Byte(Flag), Byte(NotText)>>
  <2>1. Len(line) \in Nat \ {0}
    BY <1>1, <1>4, EmptySeq
  <2>2. \A i \in 1..(Len(line) - 1) : line[i] \in S
    BY <1>1
  <2>3. /\ whole \in Seq(S) /\ Len(whole) = Len(line) - 1
        /\ \A i \in 1..(Len(line) - 1) : whole[i] = line[i]
    <3>1. /\ whole \in Seq(S)
          /\ Len(whole) = IF 1 <= Len(line) - 1 THEN Len(line) - 1 - 1 + 1 ELSE 0
          /\ \A i \in 1..(Len(line) - 1 - 1 + 1) : whole[i] = line[1 + i - 1]
      BY <2>1, <2>2, SubSeqProperties
    <3>. DEFINE n == Len(line) - 1
    <3>2. n \in Nat /\ 1..(n - 1 + 1) = 1..n /\ \A i \in 1..n : 1 + i - 1 = i
      BY <2>1
    <3>3. Len(whole) = IF 1 <= n THEN n - 1 + 1 ELSE 0
      BY <3>1
    <3>4. \A i \in 1..(n - 1 + 1) : whole[i] = line[1 + i - 1]
      BY <3>1
    <3>. HIDE DEF whole, n
    <3>5. Len(whole) = n
      BY <3>2, <3>3
    <3>6. \A i \in 1..n : whole[i] = line[i]
      BY <3>2, <3>4
    <3>. QED
      BY <3>1, <3>5, <3>6 DEF n
  <2>4. half \in Seq(S)
    BY <1>2
  <2>. HIDE DEF whole
  <2>5. Ordered(whole, line)
    BY <2>1, <2>3, OrderedPrefix
  <2>6. \A i \in 1..Len(half) : ~Plain(half[i])
    BY HalfNotPlain
  <2>. HIDE DEF half
  <2>7. Ordered(whole \o half, line)
    BY <2>3, <2>4, <2>5, <2>6, OrderedWithout
  <2>. QED
    BY <1>4, <2>7 DEF Halved, whole, half
<1>. QED
  BY <1>3, <1>4 DEF Reads

\* The elements of all three sequences.
LEMMA AllAnything ==
  ASSUME IInv
  PROVE  /\ line \in Seq(Anything(answers)) /\ log \in Seq(Anything(answers))
         /\ written \in Seq(Anything(answers))
<1>1. /\ OnTheLine(answers) \subseteq Anything(answers)
      /\ InTheLog(answers) \subseteq Anything(answers)
      /\ Octets \subseteq Anything(answers)
  BY DEF Anything, OnTheLine
<1>. QED
  BY <1>1, SeqMonotonic DEF IInv, LineGenuine, LogGenuine, Satellite

\* A read that goes to the log as it came, or in part, keeps the order.
LEMMA OrderKept ==
  ASSUME IInv, Ordering, ~repeated, NEW read \in Reads, Read(read),
         NEW x \in Seq(Anything(answers)), Ordered(x, read)
  PROVE  Ordered((log \o x) \o line', written)
<1>. DEFINE S == Anything(answers)
<1>1. line \in Seq(S) /\ log \in Seq(S) /\ written \in Seq(S)
  BY AllAnything
<1>2. read \in Seq(S) /\ line' \in Seq(S)
  <2>1. read \in Seq(OnTheLine(answers)) /\ line' \in Seq(OnTheLine(answers))
    BY ReadGenuine DEF IInv
  <2>2. OnTheLine(answers) \subseteq Anything(answers)
    BY DEF Anything
  <2>. QED
    BY <2>1, <2>2, SeqMonotonic
<1>3. \A i \in 1..Len(line') : ~Plain(line'[i])
  <2>1. CASE line' = <<>>
    BY <2>1
  <2>2. CASE line' = <<Byte(NotText), Byte(Flag)>>
    BY <2>2, HalfNotPlain
  <2>. QED
    BY <2>1, <2>2 DEF Read
<1>. HIDE DEF S
<1>4. Ordered(x, line)
  BY <1>1, <1>2, OrderedRead, OrderedTrans DEF S
<1>5. x \in Seq(S)
  BY DEF S
<1>6. Ordered(x \o line', line)
  BY <1>2, <1>3, <1>4, <1>5, OrderedWithout
<1>7. x \o line' \in Seq(S)
  BY <1>2, <1>5, ConcatProperties
<1>8. Ordered(log \o (x \o line'), log \o line)
  BY <1>1, <1>6, <1>7, OrderedBehind
<1>9. Ordered(log \o line, written)
  BY DEF Ordering
<1>10. log \o (x \o line') \in Seq(S) /\ log \o line \in Seq(S)
  BY <1>1, <1>7, ConcatProperties
<1>11. Ordered(log \o (x \o line'), written)
  BY <1>1, <1>8, <1>9, <1>10, OrderedTrans
<1>12. (log \o x) \o line' = log \o (x \o line')
  <2>1. Joined(Joined(log, x), line') = Joined(log, Joined(x, line'))
    BY <1>1, <1>2, <1>5, JoinedAssociative, SMT
  <2>. QED
    BY <2>1, Zenon DEF Joined
<1>. QED
  BY <1>11, <1>12

\* The same when nothing of the read is logged.
LEMMA OrderKeptUnlogged ==
  ASSUME IInv, Ordering, ~repeated, NEW read \in Reads, Read(read)
  PROVE  Ordered(log \o line', written)
<1>1. <<>> \in Seq(Anything(answers)) /\ Len(<<>>) = 0
  BY EmptySeq
<1>2. Ordered(<<>>, read)
  BY <1>1 DEF Ordered
<1>3. Ordered((log \o <<>>) \o line', written)
  BY <1>1, <1>2, OrderKept
<1>4. log \o <<>> = log
  BY AllAnything, ConcatEmptySeq
<1>. QED
  BY <1>3, <1>4

LEMMA OrderingAfter ==
  ASSUME ~repeated' => Ordered(log' \o line', written')
  PROVE  Ordering'
BY DEF Ordering, Ordered, Plain

\* A call or a poll begins.
LEMMA OrderOpened ==
  ASSUME IInv, Ordering, Open, UNCHANGED <<log, written, repeated>>
  PROVE  Ordering'
<1>0. log' = log /\ written' = written /\ repeated' = repeated
  OBVIOUS
<1>1. CASE line' = line
  <2>1. ~repeated' => Ordered(log' \o line', written')
    BY <1>0, <1>1 DEF Ordering
  <2>. QED
    BY <2>1, OrderingAfter
<1>2. CASE line' = <<>> /\ ~repeated
  <2>. DEFINE S == Anything(answers)
  <2>1. line \in Seq(S) /\ log \in Seq(S) /\ written \in Seq(S) /\ Len(log) \in Nat
    BY AllAnything
  <2>. HIDE DEF S
  <2>2. /\ log \o line \in Seq(S) /\ Len(log \o line) \in Nat /\ Len(log) <= Len(log \o line)
        /\ \A i \in 1..Len(log) : (log \o line)[i] = log[i]
    BY <2>1, ConcatProperties
  <2>3. Ordered(log, log \o line)
    BY <2>1, <2>2, OrderedPrefix
  <2>4. Ordered(log, written)
    BY <1>2, <2>1, <2>2, <2>3, OrderedTrans DEF Ordering
  <2>5. log \o <<>> = log
    BY <2>1, ConcatEmptySeq
  <2>. QED
    BY <1>2, <2>4, <2>5 DEF Ordering
<1>. QED
  BY <1>1, <1>2 DEF Open, Ordering

LEMMA OrderedSent ==
  ASSUME IInv, Ordering, SendAnswer
  PROVE  Ordering'
<1>1. PICK a \in due, noise \in Noises : line' = Append(line, Arriving(a, noise))
  BY DEF SendAnswer
<1>2. log' = log /\ written' = written /\ repeated' = repeated
  BY DEF SendAnswer, history
<1>. DEFINE S == Anything(answers)    x == Arriving(a, noise)
<1>3. line \in Seq(S) /\ log \in Seq(S) /\ written \in Seq(S)
  BY AllAnything
<1>4. x \in S /\ ~Plain(x)
  <2>1. a \in answers
    BY DEF IInv, Satellite
  <2>2. Byte(NotText) \in Octets
    BY DEF Octets, NotText
  <2>. QED
    BY <2>1, <2>2 DEF Arriving, Anything, OnTheLine, Packet, Byte, Plain
<1>. HIDE DEF S, x
<1>5. log \o line \in Seq(S)
  BY <1>3, ConcatProperties
<1>6. <<x>> \in Seq(S) /\ \A i \in 1..Len(<<x>>) : ~Plain(<<x>>[i])
  BY <1>4
<1>7. log \o Append(line, x) = (log \o line) \o <<x>>
  <2>1. Append(line, x) = line \o <<x>>
    BY <1>3, <1>4, AppendIsConcat
  <2>. QED
    BY <1>3, <1>6, <2>1, ConcatAssociative
<1>8. ASSUME ~repeated PROVE Ordered(log \o Append(line, x), written)
  <2>1. Ordered(log \o line, written)
    BY <1>8 DEF Ordering
  <2>. QED
    BY <1>5, <1>6, <1>7, <2>1, OrderedWithout
<1>9. log' \o line' = log \o Append(line, x)
  BY <1>1, <1>2 DEF x
<1>. QED
  BY <1>2, <1>8, <1>9, OrderingAfter

LEMMA OrderedWritten ==
  ASSUME IInv, Ordering, WriteLog
  PROVE  Ordering'
<1>1. PICK text \in LogTexts :
        /\ written' = Append(written, Byte(text[Len(written) + 1]))
        /\ line' = Append(line, Byte(text[Len(written) + 1]))
  BY DEF WriteLog
<1>2. log' = log /\ repeated' = repeated
  BY DEF WriteLog, history
<1>. DEFINE x == Byte(text[Len(written) + 1])
            S == Anything(answers) \cup {x}
<1>3. line \in Seq(S) /\ log \in Seq(S) /\ written \in Seq(S) /\ x \in S
  BY AllAnything, SeqMonotonic
<1>. HIDE DEF S, x
<1>4. log \o line \in Seq(S)
  BY <1>3, ConcatProperties
<1>5. log \o Append(line, x) = Append(log \o line, x)
  <2>1. Append(line, x) = line \o <<x>> /\ Append(log \o line, x) = (log \o line) \o <<x>>
    BY <1>3, <1>4, AppendIsConcat
  <2>2. <<x>> \in Seq(S)
    BY <1>3
  <2>. QED
    BY <1>3, <2>1, <2>2, ConcatAssociative
<1>6. ASSUME ~repeated PROVE Ordered(log \o Append(line, x), Append(written, x))
  <2>1. Ordered(log \o line, written)
    BY <1>6 DEF Ordering
  <2>. QED
    BY <1>3, <1>4, <1>5, <2>1, OrderedOn
<1>7. log' \o line' = log \o Append(line, x) /\ written' = Append(written, x)
  BY <1>1, <1>2 DEF x
<1>. QED
  BY <1>2, <1>6, <1>7, OrderingAfter

\* What any of the three makes of a read.
LEMMA OrderedLogged ==
  ASSUME IInv, Ordering, NEW read \in Reads, Read(read), NEW x,
         x \in Seq(Anything(answers)), ~repeated' => ~repeated /\ Ordered(x, read),
         log' = log \o x, written' = written
  PROVE  Ordering'
<1>1. ASSUME ~repeated' PROVE Ordered(log' \o line', written')
  <2>1. Ordered((log \o x) \o line', written)
    BY <1>1, OrderKept
  <2>. QED
    BY <2>1
<1>. QED
  BY <1>1, OrderingAfter

\* The same of a read nothing of which is logged.
LEMMA OrderedUnlogged ==
  ASSUME IInv, Ordering, NEW read \in Reads, Read(read),
         UNCHANGED <<log, written>>, ~repeated' => ~repeated
  PROVE  Ordering'
<1>1. ASSUME ~repeated' PROVE Ordered(log' \o line', written')
  <2>1. Ordered(log \o line', written)
    BY <1>1, OrderKeptUnlogged
  <2>. QED
    BY <2>1
<1>. QED
  BY <1>1, OrderingAfter

\* The parts of a read and the report are among what may stand anywhere.
LEMMA ReadAnything ==
  ASSUME IInv, NEW read \in Reads
  PROVE  read \in Seq(Anything(answers))
<1>1. read \in Seq(OnTheLine(answers))
  BY ReadGenuine DEF IInv
<1>2. OnTheLine(answers) \subseteq Anything(answers)
  BY DEF Anything
<1>. QED
  BY <1>1, <1>2, SeqMonotonic

LEMMA OrderedAnswer ==
  ASSUME IInv, Ordering, ReadAnswer
  PROVE  Ordering'
<1>1. PICK read \in Reads : Read(read) /\ log' = log \o Logged(read)
  BY DEF ReadAnswer
<1>2. written' = written /\ repeated' = repeated
  BY DEF ReadAnswer, satellite, history
<1>3. CASE HasFlag(read) /\ Logged(read) = Outer(read)
  <2>1. Ordered(Outer(read), read) /\ Outer(read) \in Seq(Anything(answers))
    BY <1>3, ReadAnything, OrderedOuter, Around
  <2>. QED
    BY <1>1, <1>2, <1>3, <2>1, OrderedLogged
<1>4. CASE Logged(read) = <<>>
  <2>1. log' = log
    BY <1>1, <1>4, AllAnything, ConcatEmptySeq
  <2>. QED
    BY <1>1, <1>2, <2>1, OrderedUnlogged
<1>. QED
  BY <1>3, <1>4 DEF Logged

LEMMA OrderedAck ==
  ASSUME IInv, Ordering, ReadAck
  PROVE  Ordering'
<1>1. PICK read \in Reads :
        LET outer == IF HasFlag(read) THEN Outer(read) ELSE Repeated(read)
        IN  /\ Read(read)
            /\ log' = IF Decodes(outer) THEN log \o outer ELSE log
            /\ repeated' = (repeated \/ ~HasFlag(read))
  BY DEF ReadAck
<1>2. written' = written
  BY DEF ReadAck, satellite
<1>3. CASE ~HasFlag(read)
  BY <1>1, <1>3 DEF Ordering
<1>4. CASE HasFlag(read) /\ log' = log \o Outer(read)
  <2>1. Ordered(Outer(read), read) /\ Outer(read) \in Seq(Anything(answers))
    BY <1>4, ReadAnything, OrderedOuter, Around
  <2>2. Read(read) /\ (~repeated' => ~repeated)
    BY <1>1
  <2>. QED
    BY <1>2, <1>4, <2>1, <2>2, OrderedLogged
<1>5. CASE HasFlag(read) /\ log' = log
  <2>1. Read(read) /\ (~repeated' => ~repeated)
    BY <1>1
  <2>. QED
    BY <1>2, <1>5, <2>1, OrderedUnlogged
<1>. QED
  BY <1>1, <1>3, <1>4, <1>5

LEMMA OrderedPoll ==
  ASSUME IInv, Ordering, PollRead
  PROVE  Ordering'
<1>1. PICK read \in Reads : Read(read) /\ \E data_string \in Polled(read) : log' = log \o data_string
  BY DEF PollRead
<1>2. PICK data_string \in Polled(read) : log' = log \o data_string
  BY <1>1
<1>3. written' = written /\ repeated' = repeated
  BY DEF PollRead, satellite, history
<1>4. data_string \in Seq(Anything(answers))
  <2>1. data_string \in Seq(InTheLog(answers))
    BY ReadGenuine, PolledGenuine DEF IInv
  <2>2. InTheLog(answers) \subseteq Anything(answers)
    BY DEF Anything
  <2>. QED
    BY <2>1, <2>2, SeqMonotonic
<1>5. Ordered(data_string, read)
  <2>1. read \in Seq(Anything(answers)) /\ Len(read) \in Nat
    BY ReadAnything
  <2>2. CASE ~HasFlag(read)
    <3>1. data_string = read
      BY <2>2 DEF Polled
    <3>. QED
      BY <2>1, <3>1, OrderedPrefix
  <2>3. CASE HasFlag(read)
    <3>0. PICK d \in DecodeFrame(FrameBytes(read)) :
            \E report \in Reports(d) : data_string = Left(read) \o <<report>> \o Right(read)
      BY <2>3 DEF Polled
    <3>1. PICK report \in Reports(d) : data_string = Left(read) \o <<report>> \o Right(read)
      BY <3>0
    <3>2. ~Plain(report)
      BY DEF Reports, None, ParseCommandResponse, Plain
    <3>3. report \in Anything(answers)
      <4>1. FrameBytes(read) \in Seq(OnTheLine(answers))
        BY <2>3, ReadGenuine, Around DEF IInv
      <4>2. PICK a \in answers : d = a.block
        BY <4>1, DecodedBlock
      <4>. QED
        BY <4>2 DEF InTheLog, Anything
    <3>4. <<report>> \in Seq(Anything(answers)) /\ \A i \in 1..Len(<<report>>) : ~Plain(<<report>>[i])
      BY <3>2, <3>3
    <3>. QED
      BY <2>1, <2>3, <3>1, <3>4, OrderedParts
  <2>. QED
    BY <2>2, <2>3
<1>. QED
  BY <1>1, <1>2, <1>3, <1>4, <1>5, OrderedLogged

LEMMA OrderedRaise ==
  ASSUME IInv, Ordering, PollRaises
  PROVE  Ordering'
<1>1. PICK read \in Reads : Read(read)
  BY DEF PollRaises
<1>2. log' = log /\ written' = written /\ repeated' = repeated
  BY DEF PollRaises, satellite, history
<1>. QED
  BY <1>1, <1>2, OrderedUnlogged

LEMMA OrderingInvariant == Spec => []Ordering
<1>1. Init => Ordering
  <2>1. <<>> \o <<>> = <<>> /\ Len(<<>>) = 0
    OBVIOUS
  <2>. QED
    BY <2>1 DEF Init, Ordering, Ordered
<1>2. IInv /\ Ordering /\ [Next]_vars => Ordering'
  <2>. SUFFICES ASSUME IInv, Ordering, [Next]_vars PROVE Ordering'
    OBVIOUS
  <2>1. CASE SendAnswer
    BY <2>1, OrderedSent
  <2>2. CASE WriteLog
    BY <2>2, OrderedWritten
  <2>3. CASE SendCommand
    BY <2>3, OrderOpened DEF SendCommand
  <2>4. CASE ReadAnswer
    BY <2>4, OrderedAnswer
  <2>5. CASE SendConnRequest
    BY <2>5, OrderOpened DEF SendConnRequest
  <2>6. CASE ReadAck
    BY <2>6, OrderedAck
  <2>7. CASE StartPoll
    BY <2>7, OrderOpened DEF StartPoll, satellite, history
  <2>8. CASE PollRead
    BY <2>8, OrderedPoll
  <2>9. CASE PollRaises
    BY <2>9, OrderedRaise
  <2>10. CASE RefuseCommand \/ StopPoll \/ UNCHANGED vars
    <3>1. log' = log /\ line' = line /\ written' = written /\ repeated' = repeated
      BY <2>10 DEF RefuseCommand, StopPoll, vars, satellite, history
    <3>. QED
      BY <3>1, SMTT(30) DEF Ordering, Ordered, Plain
  <2>. QED
    BY <2>1, <2>2, <2>3, <2>4, <2>5, <2>6, <2>7, <2>8, <2>9, <2>10 DEF Next
<1>. QED
  BY <1>1, <1>2, Invariance, PTL DEF Spec

\* What the satellite's tasks write to the line stands in the operator's log in
\* the order it was written, through calls, polls and halved reads, unless
\* send_conn_request has read no frame.
THEOREM LogIsOrdered == Spec => []LogOrdered
<1>1. IInv /\ Ordering => LogOrdered
  <2>. SUFFICES ASSUME IInv, Ordering, ~repeated PROVE LogOrdered
    BY DEF LogOrdered
  <2>1. /\ Len(log) \in Nat /\ Len(written) \in Nat /\ Len(log \o line) \in Nat
        /\ DOMAIN log = 1..Len(log) /\ DOMAIN written = 1..Len(written)
        /\ Len(log) <= Len(log \o line)
        /\ \A i \in 1..Len(log) : (log \o line)[i] = log[i]
    BY AllAnything, ConcatProperties
  <2>2. \A i \in 1..Len(log) : log[i].kind = "byte" => Plain(log[i])
    BY <2>1, InvariantImplies DEF TypeOK, Plain
  <2>3. Ordered(log, written)
    <3>1. Ordered(log, log \o line)
      BY <2>1, OrderedPrefix
    <3>2. log \o line \in Seq(Anything(answers))
      BY AllAnything, ConcatProperties
    <3>. QED
      BY <3>1, <3>2, AllAnything, OrderedTrans DEF Ordering
  <2>4. ASSUME NEW j \in 1..Len(log), log[j].kind = "byte"
        PROVE  \E l \in 1..Len(written) :
                 /\ written[l] = log[j]
                 /\ \A i \in 1..(j - 1) : log[i].kind = "byte" =>
                      \E k \in 1..(l - 1) : written[k] = log[i]
    <3>1. PICK l \in 1..Len(written) :
            /\ written[l] = log[j]
            /\ \A i \in 1..(j - 1) : Plain(log[i]) => \E k \in 1..(l - 1) : written[k] = log[i]
      BY <2>2, <2>3, <2>4, Zenon DEF Ordered
    <3>2. \A i \in 1..(j - 1) : i \in 1..Len(log)
      BY <2>1
    <3>. QED
      BY <2>2, <3>1, <3>2
  <2>. QED
    BY <2>1, <2>4, SMTT(30) DEF LogOrdered
<1>. QED
  BY <1>1, Invariance, OrderingInvariant, PTL

-----------------------------------------------------------------------------
(* A list of telemetry, packed and unpacked *)

Datum == [id : 0..255, timestamp : Uint32, parameter : Seq(0..255)]

\* what packTelemetry writes of a datum it knows
Known(t) == t.id \in DOMAIN ParameterLen /\ Len(t.parameter) = ParameterLen[t.id]

\* the records at the beginning of the list that go into the packet
Accepted(list) ==
  {k \in 0..Len(list) : \A i \in 1..k :
     PackTelemetry(list[i], RsDecodedDataSize - Len(RecordsPacked(list)[i - 1])) # {}}
AcceptedLen(list) == CHOOSE k \in Accepted(list) : k + 1 \notin Accepted(list)

LEMMA ParameterLens ==
  /\ DOMAIN ParameterLen = {TelemObcTemp, TelemObcState, TelemPong}
  /\ \A id \in DOMAIN ParameterLen : ParameterLen[id] \in 0..4
BY DEF ParameterLen, TelemObcTemp, TelemObcState, TelemPong

LEMMA PackedRecordBytes ==
  ASSUME NEW t \in Datum
  PROVE  /\ PackedRecord(t) \in Seq(Bytes8)
         /\ Len(PackedRecord(t)) = 5 + Len(t.parameter)
         /\ PackedRecord(t)[1] = t.id
         /\ \A j \in 1..4 : PackedRecord(t)[1 + j] = PackUint32(t.timestamp)[j]
         /\ \A j \in 1..Len(t.parameter) : PackedRecord(t)[5 + j] = t.parameter[j]
<1>. DEFINE a == <<t.id>>    b == PackUint32(t.timestamp)    c == t.parameter
            r == Joined3(a, b, c)
<1>1. a \in Seq(Bytes8) /\ Len(a) = 1 /\ a[1] = t.id
  BY DEF Datum, Bytes8
<1>2. b \in Seq(Bytes8) /\ Len(b) = 4
  BY Uints, PackUintType DEF Datum
<1>3. c \in Seq(Bytes8) /\ Len(c) \in Nat
  BY DEF Datum, Bytes8
<1>4. PackedRecord(t) = r
  BY DEF PackedRecord, Joined3
<1>. HIDE DEF a, b, c
<1>5. /\ r \in Seq(Bytes8) /\ Len(r) = Len(a) + Len(b) + Len(c)
      /\ \A i \in 1..Len(a) : r[i] = a[i]
      /\ \A i \in 1..Len(b) : r[Len(a) + i] = b[i]
      /\ \A i \in 1..Len(c) : r[Len(a) + Len(b) + i] = c[i]
  <2>1. Holds3(r, a, b, c, Bytes8)
    BY <1>1, <1>2, <1>3, ThreeParts, Zenon
  <2>. QED
    BY <2>1, Zenon DEF Holds3
<1>. HIDE DEF r
<1>6. Len(r) = 5 + Len(c) /\ r[1] = a[1]
  BY <1>1, <1>2, <1>3, <1>5
<1>7. \A j \in 1..4 : r[1 + j] = b[j]
  BY <1>1, <1>2, <1>5
<1>8. \A j \in 1..Len(c) : r[5 + j] = c[j]
  BY <1>1, <1>2, <1>5
<1>. QED
  BY <1>1, <1>4, <1>5, <1>6, <1>7, <1>8 DEF a, b, c

\* The recursive functions of the model exist.
LEMMA RecordsPackedDefined ==
  ASSUME NEW list, Len(list) \in Nat
  PROVE  RecordsPacked(list) =
           [k \in 0..Len(list) |->
              IF k = 0 THEN <<>> ELSE RecordsPacked(list)[k - 1] \o PackedRecord(list[k])]
<1>. DEFINE N == Len(list)
            first == <<>>
            After(bytes, k) == bytes \o PackedRecord(list[k])
            Step(f, n) == [k \in 0..n |-> IF k = 0 THEN first ELSE After(f[k - 1], k)]
            Within == {n \in 0..N : \E f : f = Step(f, n)}
<1>1. N \in Nat
  OBVIOUS
<1>2. RecordsPacked(list) = CHOOSE f : f = Step(f, N)
  BY DEF RecordsPacked
<1>. HIDE DEF first, After, N
<1>3. 0 \in Within
  <2>. DEFINE f == [k \in 0..0 |-> first]
  <2>1. f = Step(f, 0) /\ 0 \in 0..N
    BY <1>1
  <2>. HIDE DEF f, Step
  <2>. QED
    BY <2>1
<1>4. ASSUME NEW n \in 1..N, n - 1 \in Within PROVE n \in Within
  <2>. DEFINE m == n - 1
  <2>1. m \in Nat /\ n = m + 1 /\ n \in 0..N
    BY <1>1
  <2>2. PICK g : g = Step(g, m)
    <3>1. m \in Within
      BY <1>4
    <3>. HIDE DEF Step, m
    <3>. QED
      BY <3>1
  <2>. DEFINE h == [k \in 0..n |-> IF k = 0 THEN first ELSE After(g[k - 1], k)]
  <2>. HIDE DEF m, Within
  <2>3. ASSUME NEW k \in 0..m PROVE h[k] = g[k]
    <3>1. g[k] = IF k = 0 THEN first ELSE After(g[k - 1], k)
      BY <2>2
    <3>. QED
      BY <2>1, <3>1
  <2>4. ASSUME NEW k \in 0..n PROVE h[k] = IF k = 0 THEN first ELSE After(h[k - 1], k)
    <3>1. CASE k = 0
      BY <3>1
    <3>2. CASE k # 0
      <4>1. k - 1 \in 0..m
        BY <2>1, <3>2
      <4>2. h[k - 1] = g[k - 1]
        BY <2>3, <4>1
      <4>. QED
        BY <3>2, <4>2
    <3>. QED
      BY <3>1, <3>2
  <2>5. h = Step(h, n)
    <3>1. h = [k \in 0..n |-> h[k]]
      OBVIOUS
    <3>. HIDE DEF h
    <3>. QED
      BY <2>4, <3>1
  <2>. HIDE DEF h, Step
  <2>. QED
    BY <2>1, <2>5 DEF Within
<1>5. N \in Within
  <2>1. \A k \in 0..N : k \in Within
    <3>. HIDE DEF Within
    <3>. QED
      BY <1>1, <1>3, <1>4, UpTo
  <2>. QED
    BY <1>1, <2>1
<1>6. \E f : f = Step(f, N)
  <2>. HIDE DEF Step
  <2>. QED
    BY <1>5
<1>7. RecordsPacked(list) = Step(RecordsPacked(list), N)
  <2>. HIDE DEF Step
  <2>. QED
    BY <1>2, <1>6
<1>. QED
  BY <1>7 DEF N, first, After

LEMMA UnpackStatesDefined ==
  ASSUME NEW block, Len(block) \in Nat
  PROVE  UnpackStates(block) =
           [k \in 0..(Len(block) \div 5) |->
              IF k = 0 THEN {[at |-> 1, list |-> <<>>]}
              ELSE UNION {UnpackNext(block, state) : state \in UnpackStates(block)[k - 1]}]
<1>. DEFINE N == Len(block) \div 5
            first == {[at |-> 1, list |-> <<>>]}
            After(states, k) == UNION {UnpackNext(block, state) : state \in states}
            Step(f, n) == [k \in 0..n |-> IF k = 0 THEN first ELSE After(f[k - 1], k)]
            Within == {n \in 0..N : \E f : f = Step(f, n)}
<1>1. N \in Nat
  OBVIOUS
<1>2. UnpackStates(block) = CHOOSE f : f = Step(f, N)
  BY DEF UnpackStates
<1>. HIDE DEF first, After, N
<1>3. 0 \in Within
  <2>. DEFINE f == [k \in 0..0 |-> first]
  <2>1. f = Step(f, 0) /\ 0 \in 0..N
    BY <1>1
  <2>. HIDE DEF f, Step
  <2>. QED
    BY <2>1
<1>4. ASSUME NEW n \in 1..N, n - 1 \in Within PROVE n \in Within
  <2>. DEFINE m == n - 1
  <2>1. m \in Nat /\ n = m + 1 /\ n \in 0..N
    BY <1>1
  <2>2. PICK g : g = Step(g, m)
    <3>1. m \in Within
      BY <1>4
    <3>. HIDE DEF Step, m
    <3>. QED
      BY <3>1
  <2>. DEFINE h == [k \in 0..n |-> IF k = 0 THEN first ELSE After(g[k - 1], k)]
  <2>. HIDE DEF m, Within
  <2>3. ASSUME NEW k \in 0..m PROVE h[k] = g[k]
    <3>1. g[k] = IF k = 0 THEN first ELSE After(g[k - 1], k)
      BY <2>2
    <3>. QED
      BY <2>1, <3>1
  <2>4. ASSUME NEW k \in 0..n PROVE h[k] = IF k = 0 THEN first ELSE After(h[k - 1], k)
    <3>1. CASE k = 0
      BY <3>1
    <3>2. CASE k # 0
      <4>1. k - 1 \in 0..m
        BY <2>1, <3>2
      <4>2. h[k - 1] = g[k - 1]
        BY <2>3, <4>1
      <4>. QED
        BY <3>2, <4>2
    <3>. QED
      BY <3>1, <3>2
  <2>5. h = Step(h, n)
    <3>1. h = [k \in 0..n |-> h[k]]
      OBVIOUS
    <3>. HIDE DEF h
    <3>. QED
      BY <2>4, <3>1
  <2>. HIDE DEF h, Step
  <2>. QED
    BY <2>1, <2>5 DEF Within
<1>5. N \in Within
  <2>1. \A k \in 0..N : k \in Within
    <3>. HIDE DEF Within
    <3>. QED
      BY <1>1, <1>3, <1>4, UpTo
  <2>. QED
    BY <1>1, <2>1
<1>6. \E f : f = Step(f, N)
  <2>. HIDE DEF Step
  <2>. QED
    BY <1>5
<1>7. UnpackStates(block) = Step(UnpackStates(block), N)
  <2>. HIDE DEF Step
  <2>. QED
    BY <1>2, <1>6
<1>. QED
  BY <1>7 DEF N, first, After

\* What has been packed of a list after k records.
LEMMA RecordsPackedSteps ==
  ASSUME NEW list \in Seq(Datum)
  PROVE  /\ RecordsPacked(list)[0] = <<>>
         /\ \A k \in 1..Len(list) :
              RecordsPacked(list)[k] = RecordsPacked(list)[k - 1] \o PackedRecord(list[k])
         /\ \A k \in 0..Len(list) : RecordsPacked(list)[k] \in Seq(Bytes8)
<1>. DEFINE N == Len(list)    packed == RecordsPacked(list)
            Typed == {k \in 0..N : packed[k] \in Seq(Bytes8)}
<1>1. N \in Nat
  OBVIOUS
<1>2. packed = [k \in 0..N |-> IF k = 0 THEN <<>> ELSE packed[k - 1] \o PackedRecord(list[k])]
  BY <1>1, RecordsPackedDefined
<1>. HIDE DEF packed
<1>3. packed[0] = <<>> /\ \A k \in 1..N : packed[k] = packed[k - 1] \o PackedRecord(list[k])
  BY <1>1, <1>2
<1>4. 0 \in Typed
  <2>1. packed[0] \in Seq(Bytes8) /\ 0 \in 0..N
    BY <1>1, <1>3, EmptySeq
  <2>. HIDE DEF N
  <2>. QED
    BY <2>1
<1>5. ASSUME NEW k \in 1..N, k - 1 \in Typed PROVE k \in Typed
  <2>1. packed[k - 1] \in Seq(Bytes8) /\ PackedRecord(list[k]) \in Seq(Bytes8)
    BY <1>5, PackedRecordBytes
  <2>2. packed[k - 1] \o PackedRecord(list[k]) \in Seq(Bytes8)
    BY <2>1, ConcatProperties
  <2>. HIDE DEF N
  <2>3. packed[k] \in Seq(Bytes8)
    BY <1>3, <2>2
  <2>4. k \in 0..N
    BY <1>1
  <2>. QED
    BY <2>3, <2>4
<1>6. \A k \in 0..N : k \in Typed
  <2>. HIDE DEF Typed, N
  <2>. QED
    BY <1>1, <1>4, <1>5, UpTo
<1>. QED
  BY <1>3, <1>6 DEF packed

\* Packing goes on behind what has been packed.
LEMMA RecordsPackedKept ==
  ASSUME NEW list \in Seq(Datum), NEW k \in 0..Len(list)
  PROVE  \A n \in k..Len(list) :
           /\ Len(RecordsPacked(list)[k]) <= Len(RecordsPacked(list)[n])
           /\ \A i \in 1..Len(RecordsPacked(list)[k]) :
                RecordsPacked(list)[n][i] = RecordsPacked(list)[k][i]
<1>. DEFINE N == Len(list)    packed == RecordsPacked(list)    b == packed[k]
            Kept(n) == Len(b) <= Len(packed[n]) /\ \A i \in 1..Len(b) : packed[n][i] = b[i]
            T == {n \in 0..(N - k) : Kept(k + n)}
<1>1. N \in Nat /\ k \in 0..N /\ N - k \in Nat
  OBVIOUS
<1>2. /\ \A n \in 1..N : packed[n] = packed[n - 1] \o PackedRecord(list[n])
      /\ \A n \in 0..N : packed[n] \in Seq(Bytes8)
  BY RecordsPackedSteps
<1>3. \A n \in 1..N : PackedRecord(list[n]) \in Seq(Bytes8)
  BY PackedRecordBytes
<1>. HIDE DEF N, packed
<1>4. b \in Seq(Bytes8) /\ Len(b) \in Nat
  BY <1>1, <1>2
<1>. HIDE DEF b
<1>5. 0 \in T
  <2>1. Kept(k)
    BY <1>4 DEF b
  <2>2. k + 0 = k /\ 0 \in 0..(N - k)
    BY <1>1
  <2>. HIDE DEF Kept
  <2>. QED
    BY <2>1, <2>2
<1>6. ASSUME NEW n \in 1..(N - k), n - 1 \in T PROVE n \in T
  <2>. DEFINE m == k + n    before == packed[m - 1]    more == PackedRecord(list[m])
  <2>1. m \in 1..N /\ m - 1 \in 0..N /\ m - 1 = k + (n - 1) /\ n \in 0..(N - k)
    BY <1>1
  <2>2. Kept(m - 1)
    <3>1. Kept(k + (n - 1))
      BY <1>6
    <3>. HIDE DEF Kept, m
    <3>. QED
      BY <2>1, <3>1
  <2>. HIDE DEF m
  <2>3. packed[m] = before \o more /\ before \in Seq(Bytes8) /\ more \in Seq(Bytes8)
    BY <1>2, <1>3, <2>1
  <2>4. Len(b) <= Len(before) /\ \A i \in 1..Len(b) : before[i] = b[i]
    BY <2>2
  <2>. HIDE DEF before, more
  <2>5. /\ Len(before \o more) = Len(before) + Len(more)
        /\ Len(before) \in Nat /\ Len(more) \in Nat
        /\ \A i \in 1..Len(before) : (before \o more)[i] = before[i]
    BY <2>3, ConcatProperties
  <2>6. Len(b) <= Len(before \o more) /\ \A i \in 1..Len(b) : (before \o more)[i] = b[i]
    BY <1>4, <2>4, <2>5
  <2>7. Kept(m)
    BY <2>3, <2>6
  <2>. HIDE DEF Kept
  <2>. QED
    BY <2>1, <2>7 DEF m
<1>7. \A n \in 0..(N - k) : n \in T
  <2>. HIDE DEF T
  <2>. QED
    BY <1>1, <1>5, <1>6, UpTo
<1>8. ASSUME NEW n \in k..N PROVE Kept(n)
  <2>1. n - k \in 0..(N - k) /\ k + (n - k) = n
    BY <1>1
  <2>2. Kept(k + (n - k))
    <3>. HIDE DEF Kept
    <3>. QED
      BY <1>7, <2>1
  <2>. HIDE DEF Kept
  <2>. QED
    BY <2>1, <2>2
<1>. QED
  BY <1>8 DEF N, packed, b

\* How many records go into the packet.
LEMMA AcceptedMost ==
  ASSUME NEW list, Len(list) \in Nat
  PROVE  AcceptedLen(list) \in Accepted(list)
<1>. DEFINE T == Accepted(list)
<1>1. 0 \in T
  BY DEF Accepted
<1>2. Len(list) + 1 \notin T
  BY DEF Accepted
<1>. HIDE DEF T
<1>3. \E k \in T : k + 1 \notin T
  <2>. SUFFICES ASSUME \A k \in T : k + 1 \in T PROVE FALSE
    OBVIOUS
  <2>1. Len(list) + 1 \in Nat
    OBVIOUS
  <2>2. ASSUME NEW k \in 1..(Len(list) + 1), k - 1 \in T PROVE k \in T
    <3>1. k - 1 + 1 \in T
      BY <2>2
    <3>2. k - 1 + 1 = k
      OBVIOUS
    <3>. QED
      BY <3>1, <3>2
  <2>3. \A k \in 0..(Len(list) + 1) : k \in T
    BY <1>1, <2>1, <2>2, UpTo
  <2>. QED
    BY <1>2, <2>1, <2>3
<1>4. AcceptedLen(list) = CHOOSE k \in T : k + 1 \notin T
  BY DEF AcceptedLen, T
<1>. QED
  BY <1>3, <1>4 DEF T

\* unpackTelemetry reads back the record packTelemetry wrote, whatever follows it.
LEMMA RecordRead ==
  ASSUME NEW t \in Datum, Known(t),
         NEW tail, Len(tail) \in Nat, Len(PackedRecord(t)) <= Len(tail),
         \A j \in 1..Len(PackedRecord(t)) : tail[j] = PackedRecord(t)[j]
  PROVE  UnpackTelemetry(tail) = {[used |-> Len(PackedRecord(t)), telemetry |-> t]}
<1>. DEFINE r == PackedRecord(t)    n == Len(t.parameter)
<1>1. /\ t.id \in 0..255 /\ t.timestamp \in Uint32 /\ t.parameter \in Seq(0..255)
      /\ t = [id |-> t.id, timestamp |-> t.timestamp, parameter |-> t.parameter]
  BY DEF Datum
<1>2. /\ Len(r) = 5 + n /\ r[1] = t.id
      /\ \A j \in 1..4 : r[1 + j] = PackUint32(t.timestamp)[j]
      /\ \A j \in 1..n : r[5 + j] = t.parameter[j]
  BY PackedRecordBytes
<1>3. n \in Nat /\ n = ParameterLen[t.id] /\ t.id \in DOMAIN ParameterLen
  BY <1>1 DEF Known
<1>4. ~(t.id > TelemPong)
  BY <1>3, ParameterLens DEF TelemObcTemp, TelemObcState, TelemPong
<1>5. /\ 5 + n <= Len(tail) /\ \A j \in 1..(5 + n) : tail[j] = r[j]
  BY <1>2
<1>. HIDE DEF r, n
<1>6. tail[1] = t.id
  BY <1>2, <1>3, <1>5
<1>7. UnpackUint32(Window(tail, 2, 4), 0) = t.timestamp
  <2>. DEFINE w == Window(tail, 2, 4)
  <2>1. ASSUME NEW j \in 1..4 PROVE w[0 + j] = PackUint32(t.timestamp)[j]
    <3>1. 0 + j = j /\ 2 + j - 1 = 1 + j /\ 1 + j \in 1..(5 + n) /\ 1 + j <= Len(tail)
      BY <1>3, <1>5
    <3>2. w[j] = tail[1 + j]
      BY <3>1 DEF Window
    <3>. QED
      BY <1>2, <1>5, <3>1, <3>2
  <2>. HIDE DEF w
  <2>2. UnpackUint32(w, 0) = t.timestamp
    BY <1>1, <2>1, Uint32RoundTrip
  <2>. QED
    BY <2>2 DEF w
<1>8. Window(tail, 6, n) = t.parameter
  <2>1. ASSUME NEW j \in 1..n
        PROVE  (IF 6 + j - 1 <= Len(tail) THEN tail[6 + j - 1] ELSE 0) = t.parameter[j]
    <3>1. 6 + j - 1 = 5 + j /\ 5 + j \in 1..(5 + n) /\ 5 + j <= Len(tail)
      BY <1>3, <1>5
    <3>. QED
      BY <1>2, <1>5, <3>1, SMTT(30)
  <2>2. t.parameter = [j \in 1..n |-> t.parameter[j]]
    BY <1>1 DEF n
  <2>. QED
    BY <2>1, <2>2 DEF Window
<1>9. UnpackTelemetry(tail) =
        {[used |-> 5 + n,
          telemetry |-> [id |-> t.id, timestamp |-> t.timestamp, parameter |-> t.parameter]]}
  <2>1. UnpackTelemetry(tail) =
          {[used |-> IF t.id \in DOMAIN ParameterLen THEN 5 + ParameterLen[t.id] ELSE 5,
            telemetry |->
              [id |-> t.id, timestamp |-> UnpackUint32(Window(tail, 2, 4), 0),
               parameter |-> IF t.id \in DOMAIN ParameterLen
                             THEN Window(tail, 6, ParameterLen[t.id]) ELSE <<15>>]]}
    BY <1>4, <1>6, Zenon DEF UnpackTelemetry
  <2>. QED
    BY <1>3, <1>7, <1>8, <2>1, Zenon
<1>. QED
  BY <1>1, <1>2, <1>9 DEF r

\* every datum of the list that has an id of the table has a parameter of its length
Sized(list) == \A i \in 1..Len(list) : list[i].id \in DOMAIN ParameterLen => Known(list[i])

\* The records of a packet, and that they leave room for the byte that ends it.
LEMMA AcceptedFits ==
  ASSUME NEW list \in Seq(Datum), Sized(list),
         RsDecodedDataSize \in Nat, RsDecodedDataSize >= MaxTelemetryDataSize
  PROVE  /\ AcceptedLen(list) \in 0..Len(list)
         /\ \A k \in 0..AcceptedLen(list) :
              /\ Len(RecordsPacked(list)[k]) \in Nat /\ Len(RecordsPacked(list)[k]) >= 5 * k
              /\ Len(RecordsPacked(list)[k]) < RsDecodedDataSize
         /\ \A k \in 1..AcceptedLen(list) :
              /\ Known(list[k])
              /\ Len(RecordsPacked(list)[k]) =
                   Len(RecordsPacked(list)[k - 1]) + Len(PackedRecord(list[k]))
              /\ \A j \in 1..Len(PackedRecord(list[k])) :
                   RecordsPacked(list)[k][Len(RecordsPacked(list)[k - 1]) + j] =
                     PackedRecord(list[k])[j]
<1>. DEFINE n == AcceptedLen(list)    packed == RecordsPacked(list)
            T == {k \in 0..n : Len(packed[k]) >= 5 * k /\ Len(packed[k]) < RsDecodedDataSize}
<1>1. /\ n \in 0..Len(list) /\ Len(list) \in Nat
      /\ \A k \in 1..n : PackTelemetry(list[k], RsDecodedDataSize - Len(packed[k - 1])) # {}
  BY AcceptedMost DEF Accepted
<1>2. /\ packed[0] = <<>>
      /\ \A k \in 1..n : packed[k] = packed[k - 1] \o PackedRecord(list[k])
      /\ \A k \in 0..n : packed[k] \in Seq(Bytes8)
  <2>1. \A k \in 0..n : k \in 0..Len(list)
    BY <1>1
  <2>2. \A k \in 1..n : k \in 1..Len(list)
    BY <1>1
  <2>. HIDE DEF n, packed
  <2>3. /\ packed[0] = <<>>
        /\ \A k \in 1..Len(list) : packed[k] = packed[k - 1] \o PackedRecord(list[k])
        /\ \A k \in 0..Len(list) : packed[k] \in Seq(Bytes8)
    BY RecordsPackedSteps DEF packed
  <2>. QED
    BY <2>1, <2>2, <2>3, Zenon
<1>. HIDE DEF n, packed
<1>3. ASSUME NEW k \in 1..n
      PROVE  /\ list[k] \in Datum /\ Known(list[k])
             /\ Len(packed[k - 1]) + 12 <= RsDecodedDataSize
  <2>1. k \in 1..Len(list)
    BY <1>1
  <2>2. Room(RsDecodedDataSize - Len(packed[k - 1])) /\ list[k].id \in DOMAIN ParameterLen
    BY <1>1 DEF PackTelemetry
  <2>3. Len(packed[k - 1]) \in Nat
    <3>1. k - 1 \in 0..n
      BY <1>1
    <3>2. packed[k - 1] \in Seq(Bytes8)
      BY <1>2, <3>1
    <3>. QED
      BY <3>2
  <2>. QED
    BY <2>1, <2>2, <2>3 DEF Room, MaxTelemetryDataSize, Sized
<1>4. ASSUME NEW k \in 1..n
      PROVE  /\ Len(packed[k]) = Len(packed[k - 1]) + Len(PackedRecord(list[k]))
             /\ Len(packed[k - 1]) \in Nat
             /\ \A j \in 1..Len(PackedRecord(list[k])) :
                  packed[k][Len(packed[k - 1]) + j] = PackedRecord(list[k])[j]
             /\ Len(PackedRecord(list[k])) \in 5..9
  <2>. DEFINE before == packed[k - 1]    r == PackedRecord(list[k])
  <2>1. before \in Seq(Bytes8) /\ packed[k] = before \o r
    <3>1. k - 1 \in 0..n
      BY <1>1
    <3>. QED
      BY <1>2, <3>1
  <2>2. r \in Seq(Bytes8) /\ Len(r) = 5 + Len(list[k].parameter)
    BY <1>3, PackedRecordBytes
  <2>3. Len(list[k].parameter) \in 0..4
    BY <1>3, ParameterLens DEF Known
  <2>. HIDE DEF before, r
  <2>4. /\ Len(before \o r) = Len(before) + Len(r) /\ Len(before) \in Nat
        /\ \A j \in 1..Len(r) : (before \o r)[Len(before) + j] = r[j]
    <3>1. before \in Seq(Bytes8) /\ r \in Seq(Bytes8)
      BY <2>1, <2>2
    <3>. QED
      BY <3>1
  <2>5. Len(r) \in 5..9
    <3>. DEFINE x == Len(r)    y == Len(list[k].parameter)
    <3>1. x = 5 + y /\ y \in 0..4
      BY <2>2, <2>3
    <3>. HIDE DEF x, y
    <3>2. x \in 5..9
      BY <3>1
    <3>. QED
      BY <3>2 DEF x
  <2>. QED
    BY <2>1, <2>4, <2>5 DEF before, r
<1>5. 0 \in T
  <2>1. Len(packed[0]) = 0 /\ 5 * 0 = 0 /\ 0 < RsDecodedDataSize /\ 0 \in 0..n
    BY <1>1, <1>2 DEF MaxTelemetryDataSize
  <2>. QED
    BY <2>1
<1>6. ASSUME NEW k \in 1..n, k - 1 \in T PROVE k \in T
  <2>. DEFINE x == Len(packed[k])    y == Len(packed[k - 1])    z == Len(PackedRecord(list[k]))
  <2>1. x = y + z /\ y \in Nat /\ z \in 5..9 /\ y + 12 <= RsDecodedDataSize /\ y >= 5 * (k - 1)
    BY <1>3, <1>4, <1>6
  <2>. HIDE DEF x, y, z
  <2>2. x >= 5 * k /\ x < RsDecodedDataSize /\ k \in 0..n
    BY <1>1, <2>1
  <2>. QED
    BY <2>2 DEF x
<1>7. \A k \in 0..n : k \in T
  <2>1. n \in Nat
    BY <1>1
  <2>. HIDE DEF T
  <2>. QED
    BY <1>5, <1>6, <2>1, UpTo
<1>8. \A k \in 0..n : Len(packed[k]) \in Nat
  BY <1>2
<1>. QED
  BY <1>1, <1>3, <1>4, <1>7, <1>8 DEF n, packed

\* The block of a packet: its records, and zeros.
LEMMA PacketBytes ==
  ASSUME NEW list \in Seq(Datum), Sized(list),
         RsDecodedDataSize \in Nat, RsDecodedDataSize >= MaxTelemetryDataSize
  PROVE  /\ TelemetryPacket(list).list = SubSeq(list, 1, AcceptedLen(list))
         /\ Len(TelemetryPacket(list).block) = RsDecodedDataSize
         /\ \A i \in 1..Len(RecordsPacked(list)[AcceptedLen(list)]) :
              TelemetryPacket(list).block[i] = RecordsPacked(list)[AcceptedLen(list)][i]
         /\ TelemetryPacket(list).block[Len(RecordsPacked(list)[AcceptedLen(list)]) + 1] = TelemNone
<1>. DEFINE n == AcceptedLen(list)    bytes == RecordsPacked(list)[n]
            block == TelemetryPacket(list).block
            size == RsDecodedDataSize
            at(i) == IF 1 + i - 1 <= Len(bytes) THEN bytes[1 + i - 1] ELSE 0
<1>1. TelemetryPacket(list) = [block |-> Window(bytes, 1, size), list |-> SubSeq(list, 1, n)]
  BY DEF TelemetryPacket, AcceptedLen, Accepted
<1>2. n \in 0..Len(list) /\ Len(bytes) \in Nat /\ Len(bytes) < size /\ size \in Nat
  <2>1. n \in 0..Len(list) /\ \A k \in 0..n : Len(RecordsPacked(list)[k]) \in Nat
                                          /\ Len(RecordsPacked(list)[k]) < size
    BY AcceptedFits
  <2>2. n \in 0..n
    BY <2>1
  <2>. HIDE DEF n
  <2>. QED
    BY <2>1, <2>2
<1>3. block = [i \in 1..size |-> at(i)]
  BY <1>1 DEF Window
<1>30. TelemetryPacket(list).list = SubSeq(list, 1, n)
  <2>. DEFINE short == SubSeq(list, 1, n)
  <2>1. TelemetryPacket(list) = [block |-> Window(bytes, 1, size), list |-> short]
    BY <1>1
  <2>. HIDE DEF bytes, size, n, block, short
  <2>2. TelemetryPacket(list).list = short
    BY <2>1
  <2>. QED
    BY <2>2 DEF short
<1>. HIDE DEF block, at
<1>4. Len(block) = size
  BY <1>2, <1>3
<1>5. \A i \in 1..size : block[i] = at(i)
  BY <1>3
<1>. HIDE DEF bytes, size, n
<1>6. \A i \in 1..Len(bytes) : i \in 1..size /\ at(i) = bytes[i]
  BY <1>2 DEF at
<1>7. Len(bytes) + 1 \in 1..size /\ at(Len(bytes) + 1) = 0
  BY <1>2 DEF at
<1>8. \A i \in 1..Len(bytes) : block[i] = bytes[i]
  BY <1>5, <1>6
<1>9. block[Len(bytes) + 1] = TelemNone
  BY <1>5, <1>7, Zenon DEF TelemNone
<1>. QED
  BY <1>30, <1>4, <1>8, <1>9, Zenon DEF n, bytes, size, block

\* One round of unpack_telem reads the next record.
LEMMA RoundReads ==
  ASSUME NEW list \in Seq(Datum), Sized(list),
         RsDecodedDataSize \in Nat, RsDecodedDataSize >= MaxTelemetryDataSize,
         NEW k \in 1..AcceptedLen(list), NEW l
  PROVE  /\ TelemetryPacket(list).block[Len(RecordsPacked(list)[k - 1]) + 1] # TelemNone
         /\ UnpackNext(TelemetryPacket(list).block,
                       [at |-> Len(RecordsPacked(list)[k - 1]) + 1, list |-> l]) =
              {[at |-> Len(RecordsPacked(list)[k]) + 1, list |-> Append(l, list[k])]}
<1>. DEFINE n == AcceptedLen(list)
            block == TelemetryPacket(list).block
            t == list[k]           r == PackedRecord(t)
            whole == RecordsPacked(list)[n]    this == RecordsPacked(list)[k]
            x == Len(RecordsPacked(list)[k - 1])
            tail == SubSeq(block, x + 1, Len(block))
<1>1. /\ n \in 0..Len(list) /\ Len(list) \in Nat /\ k \in 1..n /\ k - 1 \in 0..n
  <2>1. Len(list) \in Nat /\ k \in 1..n
    OBVIOUS
  <2>2. n \in 0..Len(list)
    BY AcceptedFits
  <2>. HIDE DEF n
  <2>. QED
    BY <2>1, <2>2
<1>2. /\ Known(t) /\ Len(this) = x + Len(r) /\ x \in Nat /\ Len(whole) < RsDecodedDataSize
      /\ Len(whole) \in Nat
      /\ \A j \in 1..Len(r) : this[x + j] = r[j]
  <2>1. /\ \A i \in 0..n : Len(RecordsPacked(list)[i]) \in Nat
                           /\ Len(RecordsPacked(list)[i]) < RsDecodedDataSize
        /\ \A i \in 1..n :
             /\ Known(list[i])
             /\ Len(RecordsPacked(list)[i]) = Len(RecordsPacked(list)[i - 1]) + Len(PackedRecord(list[i]))
             /\ \A j \in 1..Len(PackedRecord(list[i])) :
                  RecordsPacked(list)[i][Len(RecordsPacked(list)[i - 1]) + j] = PackedRecord(list[i])[j]
    BY AcceptedFits
  <2>2. n \in 0..n
    BY <1>1
  <2>. HIDE DEF n
  <2>. QED
    BY <1>1, <2>1, <2>2
<1>3. t \in Datum
  BY <1>1
<1>4. r[1] = t.id /\ Len(r) \in Nat /\ Len(r) >= 5
  <2>1. Len(t.parameter) \in Nat
    BY <1>3 DEF Datum
  <2>. QED
    <3>1. r[1] = t.id /\ Len(r) = 5 + Len(t.parameter)
      BY <1>3, PackedRecordBytes, Zenon
    <3>. QED
      BY <2>1, <3>1
<1>5. t.id \in DOMAIN ParameterLen /\ t.id # TelemNone
  BY <1>2, ParameterLens DEF Known, TelemNone, TelemObcTemp, TelemObcState, TelemPong
<1>6. Len(this) <= Len(whole) /\ \A i \in 1..Len(this) : whole[i] = this[i]
  <2>1. k \in 0..Len(list) /\ n \in k..Len(list)
    BY <1>1
  <2>. HIDE DEF n
  <2>. QED
    BY <2>1, RecordsPackedKept
<1>7. /\ Len(block) = RsDecodedDataSize
      /\ \A i \in 1..Len(whole) : block[i] = whole[i]
  BY PacketBytes
<1>. HIDE DEF n, t, r, whole, this, x, block
<1>8. \A j \in 1..Len(r) : block[x + j] = r[j]
  <2>1. ASSUME NEW j \in 1..Len(r) PROVE x + j \in 1..Len(this) /\ x + j \in 1..Len(whole)
    BY <1>2, <1>4, <1>6, SMTT(30)
  <2>. QED
    BY <1>2, <1>6, <1>7, <2>1
<1>9. /\ Len(tail) = Len(block) - x /\ \A j \in 1..(Len(block) - x) : tail[j] = block[x + j]
      /\ x + 1 <= Len(block) /\ Len(r) <= Len(block) - x
  <2>. DEFINE m == Len(block)
  <2>1. m \in Nat /\ x + Len(r) <= m /\ x + 1 <= m /\ x + 1 \in Int /\ m \in Int
    BY <1>2, <1>4, <1>6, <1>7
  <2>. HIDE DEF m
  <2>2. \A i \in (x + 1)..m : block[i] \in {block[j] : j \in (x + 1)..m}
    OBVIOUS
  <2>3. /\ Len(SubSeq(block, x + 1, m)) = IF x + 1 <= m THEN m - (x + 1) + 1 ELSE 0
        /\ \A i \in 1..(m - (x + 1) + 1) : SubSeq(block, x + 1, m)[i] = block[x + 1 + i - 1]
    BY <2>1, <2>2, SubSeqProperties
  <2>. DEFINE tail_ == SubSeq(block, x + 1, m)
  <2>. HIDE DEF tail_
  <2>4. Len(tail_) = m - x
    <3>1. Len(tail_) = IF x + 1 <= m THEN m - (x + 1) + 1 ELSE 0
      BY <2>3 DEF tail_
    <3>. QED
      BY <1>2, <2>1, <3>1
  <2>5. ASSUME NEW j \in 1..(m - x) PROVE tail_[j] = block[x + j]
    <3>1. j \in 1..(m - (x + 1) + 1) /\ x + 1 + j - 1 = x + j
      BY <1>2, <2>1
    <3>. QED
      BY <2>3, <3>1 DEF tail_
  <2>6. Len(r) <= m - x
    BY <1>2, <1>4, <2>1
  <2>. QED
    BY <2>1, <2>4, <2>5, <2>6 DEF tail_, m
<1>. HIDE DEF tail
<1>10. UnpackTelemetry(tail) = {[used |-> Len(r), telemetry |-> t]}
  <2>1. Len(tail) \in Nat /\ Len(r) <= Len(tail)
    BY <1>2, <1>7, <1>9
  <2>2. \A j \in 1..Len(r) : tail[j] = r[j]
    <3>1. \A j \in 1..Len(r) : j \in 1..(Len(block) - x)
      BY <1>2, <1>4, <1>7, <1>9
    <3>. QED
      BY <1>8, <1>9, <3>1
  <2>. QED
    BY <1>2, <1>3, <2>1, <2>2, RecordRead DEF r
<1>11. block[x + 1] # TelemNone
  BY <1>4, <1>5, <1>8
<1>12. ~(x + 1 > Len(block)) /\ x + 1 + Len(r) = Len(this) + 1
  BY <1>2, <1>4, <1>7, <1>9
<1>13. UnpackNext(block, [at |-> x + 1, list |-> l]) =
         {[at |-> x + 1 + z.used, list |-> Append(l, z.telemetry)] : z \in UnpackTelemetry(tail)}
  BY <1>11, <1>12, Zenon DEF UnpackNext, tail
<1>14. UnpackNext(block, [at |-> x + 1, list |-> l]) =
         {[at |-> x + 1 + Len(r), list |-> Append(l, t)]}
  BY <1>10, <1>13
<1>. QED
  BY <1>11, <1>12, <1>14 DEF x, block, this, t

\* The loop of unpack_telem: after k rounds it has read k records, and no more
\* than there are.
LEMMA StatesRead ==
  ASSUME NEW list \in Seq(Datum), Sized(list),
         RsDecodedDataSize \in Nat, RsDecodedDataSize >= MaxTelemetryDataSize,
         NEW k \in 0..(RsDecodedDataSize \div 5)
  PROVE  UnpackStates(TelemetryPacket(list).block)[k] =
           IF k <= AcceptedLen(list)
           THEN {[at |-> Len(RecordsPacked(list)[k]) + 1, list |-> SubSeq(list, 1, k)]}
           ELSE {}
<1>. DEFINE n == AcceptedLen(list)
            block == TelemetryPacket(list).block
            x(i) == Len(RecordsPacked(list)[i]) + 1
            state(i) == [at |-> x(i), list |-> SubSeq(list, 1, i)]
            states == UnpackStates(block)
            R(i) == states[i] = IF i <= n THEN {state(i)} ELSE {}
            N == RsDecodedDataSize \div 5
            T == {i \in 0..N : R(i)}
<1>1. N \in Nat /\ n \in 0..Len(list) /\ Len(list) \in Nat /\ n \in Nat
  <2>1. N \in Nat /\ Len(list) \in Nat
    OBVIOUS
  <2>2. n \in 0..Len(list)
    BY AcceptedFits
  <2>. HIDE DEF n, N
  <2>. QED
    BY <2>1, <2>2
<1>2. /\ states[0] = {[at |-> 1, list |-> <<>>]}
      /\ \A i \in 1..N : states[i] = UNION {UnpackNext(block, s) : s \in states[i - 1]}
  <2>1. Len(block) = RsDecodedDataSize
    BY PacketBytes
  <2>. HIDE DEF block
  <2>2. states = [i \in 0..N |-> IF i = 0 THEN {[at |-> 1, list |-> <<>>]}
                                 ELSE UNION {UnpackNext(block, s) : s \in states[i - 1]}]
    BY <2>1, UnpackStatesDefined
  <2>. HIDE DEF states, N
  <2>3. 0 \in 0..N /\ \A i \in 1..N : i \in 0..N /\ i # 0
    BY <1>1
  <2>. QED
    BY <2>2, <2>3
<1>3. \A i \in 1..n : UnpackNext(block, state(i - 1)) = {[at |-> x(i), list |-> Append(SubSeq(list, 1, i - 1), list[i])]}
  BY RoundReads
<1>4. \A i \in 1..n : Append(SubSeq(list, 1, i - 1), list[i]) = SubSeq(list, 1, i)
  <2>. HIDE DEF n
  <2>. SUFFICES ASSUME NEW i \in 1..n PROVE Append(SubSeq(list, 1, i - 1), list[i]) = SubSeq(list, 1, i)
    OBVIOUS
  <2>1. 1 \in 1..Len(list) /\ i \in 1..Len(list) /\ i - 1 \in Int /\ 1 \in Int
    BY <1>1
  <2>2. SubSeq(list, 1, i) = SubSeq(list, 1, i - 1) \o <<list[i]>>
    BY <2>1, SubSeqRecursiveSecond
  <2>3. \A j \in 1..(i - 1) : list[j] \in Datum
    BY <1>1
  <2>4. SubSeq(list, 1, i - 1) \in Seq(Datum) /\ list[i] \in Datum
    BY <2>1, <2>3, SubSeqProperties
  <2>. QED
    BY <2>2, <2>4, AppendIsConcat
<1>5. UnpackNext(block, state(n)) = {}
  <2>1. block[x(n)] = TelemNone
    BY PacketBytes
  <2>. HIDE DEF block, x
  <2>. QED
    BY <2>1 DEF UnpackNext
<1>6. state(0) = [at |-> 1, list |-> <<>>]
  <2>1. RecordsPacked(list)[0] = <<>>
    BY RecordsPackedSteps
  <2>2. Len(<<>>) + 1 = 1 /\ 0 \in Int /\ 1 \in Int /\ 0 < 1
    OBVIOUS
  <2>3. x(0) = 1
    BY <2>1, <2>2
  <2>4. SubSeq(list, 1, 0) = <<>>
    BY <2>2, SubSeqEmpty
  <2>. HIDE DEF x
  <2>. QED
    BY <2>3, <2>4
<1>. HIDE DEF n, block, x, states, N
<1>7. \A i \in 1..n : UnpackNext(block, state(i - 1)) = {state(i)}
  BY <1>3, <1>4
<1>. HIDE DEF state
<1>8. 0 \in T
  BY <1>1, <1>2, <1>6
<1>9. ASSUME NEW i \in 1..N, i - 1 \in T PROVE i \in T
  <2>1. states[i - 1] = IF i - 1 <= n THEN {state(i - 1)} ELSE {}
    BY <1>9
  <2>2. states[i] = UNION {UnpackNext(block, s) : s \in states[i - 1]} /\ i \in 0..N
    BY <1>1, <1>2
  <2>3. CASE i <= n
    <3>1. i - 1 <= n /\ i \in 1..n
      BY <1>1, <2>3
    <3>2. states[i] = UnpackNext(block, state(i - 1))
      BY <2>1, <2>2, <3>1
    <3>3. R(i)
      BY <1>7, <2>3, <3>1, <3>2
    <3>. HIDE DEF R
    <3>. QED
      BY <2>2, <3>3
  <2>4. CASE i = n + 1
    <3>1. i - 1 = n /\ n <= n /\ ~(i <= n)
      BY <1>1, <2>4
    <3>2. states[i] = UnpackNext(block, state(n))
      BY <2>1, <2>2, <3>1
    <3>3. R(i)
      BY <1>5, <3>1, <3>2
    <3>. HIDE DEF R
    <3>. QED
      BY <2>2, <3>3
  <2>5. CASE i > n + 1
    <3>1. ~(i - 1 <= n) /\ ~(i <= n)
      BY <1>1, <2>5
    <3>2. states[i] = {}
      BY <2>1, <2>2, <3>1
    <3>3. R(i)
      BY <3>1, <3>2
    <3>. HIDE DEF R
    <3>. QED
      BY <2>2, <3>3
  <2>6. i <= n \/ i = n + 1 \/ i > n + 1
    BY <1>1
  <2>. QED
    BY <2>3, <2>4, <2>5, <2>6, Zenon
<1>10. \A i \in 0..N : i \in T
  <2>. HIDE DEF T
  <2>. QED
    BY <1>1, <1>8, <1>9, UpTo
<1>11. k \in 0..N
  BY DEF N
<1>12. R(k)
  BY <1>10, <1>11
<1>. QED
  BY <1>12 DEF n, block, x, state, states

\* unpack_telem reads the list that went into the packet.
LEMMA TelemetryRead ==
  ASSUME NEW list \in Seq(Datum), Sized(list),
         RsDecodedDataSize \in Nat, RsDecodedDataSize >= MaxTelemetryDataSize
  PROVE  UnpackTelem(TelemetryPacket(list).block) = {TelemetryPacket(list).list}
<1>. DEFINE n == AcceptedLen(list)
            block == TelemetryPacket(list).block
            x(i) == Len(RecordsPacked(list)[i]) + 1
            N == RsDecodedDataSize \div 5
            states == UnpackStates(block)
            last == {s \in UNION {states[i] : i \in 0..N} : s.at <= Len(block) /\ block[s.at] = TelemNone}
<1>1. /\ n \in Nat /\ \A i \in 0..n : x(i) \in Nat /\ x(i) >= 5 * i + 1 /\ x(i) <= RsDecodedDataSize
  <2>. DEFINE len(i) == Len(RecordsPacked(list)[i])
  <2>0. Len(list) \in Nat
    OBVIOUS
  <2>1. n \in 0..Len(list)
    BY AcceptedFits
  <2>2. \A i \in 0..n : len(i) \in Nat /\ len(i) >= 5 * i /\ len(i) < RsDecodedDataSize
    BY AcceptedFits
  <2>. HIDE DEF n, len
  <2>3. n \in Nat
    BY <2>0, <2>1
  <2>4. ASSUME NEW i \in 0..n
        PROVE  len(i) + 1 \in Nat /\ len(i) + 1 >= 5 * i + 1 /\ len(i) + 1 <= RsDecodedDataSize
    BY <2>2, <2>3
  <2>. QED
    BY <2>3, <2>4 DEF len
<1>2. /\ Len(block) = RsDecodedDataSize /\ block[x(n)] = TelemNone
      /\ TelemetryPacket(list).list = SubSeq(list, 1, n)
  BY PacketBytes
<1>3. \A i \in 1..n : block[x(i - 1)] # TelemNone
  <2>. SUFFICES ASSUME NEW i \in 1..n PROVE block[x(i - 1)] # TelemNone
    OBVIOUS
  <2>. QED
    BY RoundReads
<1>4. \A i \in 0..N : states[i] = IF i <= n THEN {[at |-> x(i), list |-> SubSeq(list, 1, i)]} ELSE {}
  BY StatesRead
<1>5. UnpackTelem(block) = {s.list : s \in last}
  BY <1>2 DEF UnpackTelem
<1>6. n \in 0..N /\ N \in Nat
  BY <1>1
<1>. HIDE DEF n, block, x, states, N
<1>7. ASSUME NEW i \in 0..(n - 1) PROVE block[x(i)] # TelemNone
  <2>1. i + 1 \in 1..n /\ i + 1 - 1 = i
    BY <1>1
  <2>. QED
    BY <1>3, <2>1
<1>8. [at |-> x(n), list |-> SubSeq(list, 1, n)] \in last
  <2>1. n <= n /\ n \in 0..n
    BY <1>1
  <2>2. [at |-> x(n), list |-> SubSeq(list, 1, n)] \in states[n]
    BY <1>4, <1>6, <2>1
  <2>3. x(n) <= Len(block)
    BY <1>1, <1>2, <2>1
  <2>. QED
    BY <1>2, <1>6, <2>2, <2>3
<1>9. ASSUME NEW s \in last PROVE s = [at |-> x(n), list |-> SubSeq(list, 1, n)]
  <2>1. PICK i \in 0..N : s \in states[i]
    OBVIOUS
  <2>. DEFINE state == [at |-> x(i), list |-> SubSeq(list, 1, i)]
  <2>20. states[i] = IF i <= n THEN {state} ELSE {}
    BY <1>4
  <2>2. i <= n /\ s = [at |-> x(i), list |-> SubSeq(list, 1, i)]
    <3>. HIDE DEF state
    <3>1. i <= n /\ s = state
      BY <2>1, <2>20
    <3>. QED
      BY <3>1 DEF state
  <2>3. block[x(i)] = TelemNone
    BY <2>2
  <2>4. ~(i \in 0..(n - 1))
    BY <1>7, <2>3
  <2>5. i = n
    BY <1>1, <1>6, <2>1, <2>2, <2>4
  <2>. QED
    BY <2>2, <2>5
<1>. HIDE DEF last
<1>10. last = {[at |-> x(n), list |-> SubSeq(list, 1, n)]}
  BY <1>8, <1>9
<1>11. UnpackTelem(block) = {SubSeq(list, 1, n)}
  BY <1>5, <1>10
<1>. QED
  BY <1>2, <1>11 DEF block

-----------------------------------------------------------------------------
(* Every answer says, when it is read, what the satellite said *)

\* The block of a response: its header, and its data.
LEMMA ResponseBytes ==
  ASSUME NEW id \in 0..(NumCmdCallbacks - 1), NEW o \in Outcomes,
         NEW block \in PackCmdResponse(id, o.errCode, o.data)
  PROVE  /\ Len(block) = RsDecodedDataSize
         /\ block[1] = id /\ block[2] = o.errCode /\ block[3] = Len(o.data)
         /\ \A i \in 1..ResponseDataMax : block[3 + i] = Window(o.data, 1, ResponseDataMax)[i]
<1>. DEFINE head == <<id, o.errCode, Len(o.data)>>
            data == Window(o.data, 1, ResponseDataMax)
            m == ResponseDataMax
<1>1. /\ m \in Nat /\ RsDecodedDataSize = m + 3
      /\ o.errCode \in 0..255 /\ o.data \in Seq(0..255) /\ id \in Nat
  BY SessionAssumption DEF ResponseDataMax, MaxTelemetryDataSize, NumCmdCallbacks
<1>2. block = head \o data
  BY DEF PackCmdResponse
<1>3. head \in Seq(Nat) /\ Len(head) = 3
      /\ head[1] = id /\ head[2] = o.errCode /\ head[3] = Len(o.data)
  <2>. DEFINE e == o.errCode    l == Len(o.data)
  <2>1. e \in Nat /\ l \in Nat /\ id \in Nat
    <3>1. l \in Nat /\ e \in 0..255 /\ id \in Nat
      BY <1>1, LenProperties
    <3>. HIDE DEF e, l
    <3>. QED
      BY <3>1
  <2>. HIDE DEF e, l
  <2>2. /\ <<id, e, l>> \in Seq(Nat) /\ Len(<<id, e, l>>) = 3
        /\ <<id, e, l>>[1] = id /\ <<id, e, l>>[2] = e /\ <<id, e, l>>[3] = l
    BY <2>1
  <2>. QED
    BY <2>2 DEF e, l
<1>4. data \in Seq(Nat) /\ Len(data) = m
  <2>1. ASSUME NEW i \in 1..m
        PROVE  (IF 1 + i - 1 <= Len(o.data) THEN o.data[1 + i - 1] ELSE 0) \in Nat
    <3>1. CASE 1 + i - 1 <= Len(o.data)
      <4>1. Len(o.data) \in Nat
        BY <1>1
      <4>2. 1 + i - 1 \in 1..Len(o.data)
        BY <3>1, <4>1
      <4>3. o.data[1 + i - 1] \in 0..255
        BY <1>1, <4>2, ElementOfSeq
      <4>. DEFINE x == o.data[1 + i - 1]
      <4>. HIDE DEF x
      <4>4. x \in Nat
        BY <4>3 DEF x
      <4>. QED
        BY <3>1, <4>4, Zenon DEF x
    <3>. QED
      BY <3>1
  <2>2. data \in [1..m -> Nat]
    BY <2>1 DEF Window
  <2>. HIDE DEF data, m
  <2>. QED
    BY <1>1, <2>2
<1>. HIDE DEF head, data, m
<1>5. /\ Len(head \o data) = 3 + m
      /\ \A i \in 1..3 : (head \o data)[i] = head[i]
      /\ \A i \in 1..m : (head \o data)[3 + i] = data[i]
  <2>1. head \in Seq(Nat) /\ data \in Seq(Nat)
    BY <1>3, <1>4
  <2>2. /\ Len(head \o data) = Len(head) + Len(data)
        /\ \A i \in 1..Len(head) : (head \o data)[i] = head[i]
        /\ \A i \in 1..Len(data) : (head \o data)[Len(head) + i] = data[i]
    BY <2>1
  <2>. QED
    BY <1>3, <1>4, <2>2
<1>6. 1 \in 1..3 /\ 2 \in 1..3 /\ 3 \in 1..3
  OBVIOUS
<1>7. block[1] = id /\ block[2] = o.errCode /\ block[3] = Len(o.data)
  BY <1>2, <1>3, <1>5, <1>6
<1>8. Len(block) = RsDecodedDataSize
  BY <1>1, <1>2, <1>5
<1>. QED
  BY <1>2, <1>5, <1>7, <1>8 DEF m, data

\* unpackCmdResponse reads what packCmdResponse wrote, and refuses a full block.
LEMMA ResponseRead ==
  ASSUME NEW id \in 0..(NumCmdCallbacks - 1), NEW o \in Outcomes,
         NEW block \in PackCmdResponse(id, o.errCode, o.data)
  PROVE  UnpackCmdResponse(block) =
           IF Len(o.data) >= ResponseDataMax THEN {}
           ELSE {[id |-> id, errCode |-> o.errCode, dataLen |-> Len(o.data),
                  data |-> Window(o.data, 1, ResponseDataMax)]}
<1>. DEFINE data == Window(o.data, 1, ResponseDataMax)
            m == ResponseDataMax
            header == Window(block, 1, 3)    behind == Window(block, 4, m)
<1>1. m \in Nat /\ RsDecodedDataSize = m + 3 /\ Len(block) = RsDecodedDataSize
  BY ResponseBytes, SessionAssumption DEF ResponseDataMax, MaxTelemetryDataSize
<1>2. /\ block[1] = id /\ block[2] = o.errCode /\ block[3] = Len(o.data)
      /\ \A i \in 1..m : block[3 + i] = data[i]
  BY ResponseBytes
<1>3. data = [i \in 1..m |-> data[i]]
  BY DEF Window
<1>. HIDE DEF data, m
<1>4. header[1] = id /\ header[2] = o.errCode /\ header[3] = Len(o.data)
  <2>1. /\ 1 + 1 - 1 = 1 /\ 1 + 2 - 1 = 2 /\ 1 + 3 - 1 = 3
        /\ 1 <= Len(block) /\ 2 <= Len(block) /\ 3 <= Len(block)
        /\ 1 \in 1..3 /\ 2 \in 1..3 /\ 3 \in 1..3
    BY <1>1
  <2>2. header[1] = block[1] /\ header[2] = block[2] /\ header[3] = block[3]
    BY <2>1 DEF Window
  <2>. QED
    BY <1>2, <2>2
<1>5. behind = data
  <2>1. ASSUME NEW i \in 1..m
        PROVE  (IF 4 + i - 1 <= Len(block) THEN block[4 + i - 1] ELSE 0) = data[i]
    <3>1. 4 + i - 1 = 3 + i /\ 3 + i <= Len(block)
      BY <1>1
    <3>. QED
      BY <1>2, <3>1
  <2>. QED
    BY <1>3, <2>1 DEF Window
<1>6. ~(id >= NumCmdCallbacks)
  BY DEF NumCmdCallbacks
<1>7. UnpackCmdResponse(block) =
        IF header[1] >= NumCmdCallbacks \/ header[3] >= m THEN {}
        ELSE {[id |-> header[1], errCode |-> header[2], dataLen |-> header[3], data |-> behind]}
  BY Zenon DEF UnpackCmdResponse, m
<1>. HIDE DEF header, behind
<1>. QED
  BY <1>4, <1>5, <1>6, <1>7 DEF m, data

\* What is parsed from a response shows it, and all but a full one are parsed.
LEMMA ResponseShown ==
  ASSUME NEW n, NEW id \in 1..(NumCmdCallbacks - 1), NEW a \in ResponseAnswers(n, id)
  PROVE  /\ a.kind = "response" /\ a.call = n /\ a.block # <<>>
         /\ \A r \in ParseCommandResponse(a.block) : Shows(r, a)
         /\ Len(a.data) < ResponseDataMax => ParseCommandResponse(a.block) # {}
<1>1. PICK o \in Outcomes :
        a \in {[kind |-> "response", call |-> n, id |-> id, errCode |-> o.errCode,
                data |-> o.data, block |-> block] :
               block \in PackCmdResponse(id, o.errCode, o.data)}
  BY DEF ResponseAnswers
<1>2. PICK block \in PackCmdResponse(id, o.errCode, o.data) :
        a = [kind |-> "response", call |-> n, id |-> id, errCode |-> o.errCode,
             data |-> o.data, block |-> block]
  BY <1>1
<1>3. /\ a.kind = "response" /\ a.call = n /\ a.id = id /\ a.errCode = o.errCode
      /\ a.data = o.data /\ a.block = block
  BY <1>2
<1>. DEFINE m == ResponseDataMax    l == Len(o.data)    data == Window(o.data, 1, m)
            r == [id |-> id, errCode |-> o.errCode, dataLen |-> l, data |-> data]
<1>4. /\ m \in Nat /\ m >= 4 /\ o.data \in Seq(0..255) /\ l \in Nat /\ l <= m
      /\ id \in 0..(NumCmdCallbacks - 1)
  BY SessionAssumption DEF ResponseDataMax, MaxTelemetryDataSize, NumCmdCallbacks
<1>5. UnpackCmdResponse(block) = IF l >= m THEN {} ELSE {r}
  BY <1>4, ResponseRead
<1>6. block # <<>>
  <2>1. Len(block) = RsDecodedDataSize /\ RsDecodedDataSize # 0
    BY <1>4, ResponseBytes, SessionAssumption DEF MaxTelemetryDataSize
  <2>. QED
    BY <2>1
<1>. DEFINE S(i) == IF 1 + i - 1 <= l THEN o.data[1 + i - 1] ELSE 0
<1>7. /\ data = [i \in 1..m |-> S(i)] /\ Len(data) = m
      /\ \A i \in 1..m : data[i] \in {S(j) : j \in 1..m}
  <2>1. data = [i \in 1..m |-> S(i)]
    BY DEF Window
  <2>. HIDE DEF data, S, m
  <2>. QED
    BY <1>4, <2>1
<1>8. CASE l < m
  <2>1. SubSeq(data, 1, 4) = Window(o.data, 1, 4)
    <3>1. \A i \in 1..4 : i \in 1..m /\ 1 + i - 1 = i
      BY <1>4
    <3>2. SubSeq(data, 1, 4) = [i \in 1..4 |-> data[1 + i - 1]]
      BY DEF SubSeq
    <3>3. \A i \in 1..4 : data[1 + i - 1] = S(i)
      <4>. HIDE DEF S, data
      <4>. QED
        BY <1>7, <3>1
    <3>4. Window(o.data, 1, 4) = [i \in 1..4 |-> S(i)]
      BY DEF Window
    <3>. HIDE DEF S, data
    <3>. QED
      BY <3>2, <3>3, <3>4
  <2>2. SubSeq(data, 1, l) = o.data
    <3>1. \A i \in 1..l : i \in 1..m /\ 1 + i - 1 = i /\ 1 + i - 1 <= l
      BY <1>4
    <3>2. \A i \in 1..l : data[1 + i - 1] = o.data[i]
      <4>1. \A i \in 1..l : data[1 + i - 1] = S(i)
        <5>. HIDE DEF S, data, l
        <5>. QED
          BY <1>7, <3>1
      <4>. QED
        BY <3>1, <4>1
    <3>3. SubSeq(data, 1, l) = [i \in 1..l |-> data[1 + i - 1]]
      BY DEF SubSeq
    <3>4. o.data = [i \in 1..l |-> o.data[i]]
      BY <1>4
    <3>. HIDE DEF data, l
    <3>. QED
      BY <3>2, <3>3, <3>4
  <2>3. UnpackCmdResponse(block) = {r}
    BY <1>4, <1>5, <1>8
  <2>4. ParseCommandResponse(block) =
          {[kind |-> "response", id |-> id, errCode |-> o.errCode, length |-> l,
            value |-> Parsed(r)]}
    BY <2>3 DEF ParseCommandResponse
  <2>5. id = CmdI2CProbe => Parsed(r) = a.data
    BY <1>3, <2>2 DEF Parsed, CmdI2CProbe, CmdRtcSync, CmdVerifyCrc
  <2>6. id \in {CmdRtcSync, CmdVerifyCrc} => Parsed(r) = <<LittleEndian(Window(a.data, 1, 4))>>
    <3>. DEFINE four == SubSeq(data, 1, 4)
    <3>1. r.id = id /\ r.data = data
      OBVIOUS
    <3>. HIDE DEF r, data
    <3>2. id \in {CmdRtcSync, CmdVerifyCrc} => Parsed(r) = <<LittleEndian(SubSeq(r.data, 1, 4))>>
      BY <3>1 DEF Parsed, CmdI2CProbe, CmdRtcSync, CmdVerifyCrc
    <3>. QED
      BY <1>3, <2>1, <3>1, <3>2, Zenon
  <2>. HIDE DEF r
  <2>7. \A x \in ParseCommandResponse(a.block) : Shows(x, a)
    BY <1>3, <2>4, <2>5, <2>6 DEF Shows
  <2>. QED
    BY <1>3, <1>6, <2>4, <2>7
<1>9. CASE ~(l < m)
  <2>1. UnpackCmdResponse(block) = {}
    BY <1>4, <1>5, <1>9
  <2>. QED
    BY <1>3, <1>6, <1>9, <2>1 DEF ParseCommandResponse
<1>. QED
  BY <1>8, <1>9

\* What is read from telemetry shows it, and a list of temperatures is shown.
LEMMA TelemetryShown ==
  ASSUME NEW n, NEW a \in TelemetryAnswers(n)
  PROVE  /\ a.kind = "telemetry" /\ a.call = n /\ a.block # <<>>
         /\ \A r \in Telemetry(a.block) : r # None => Shows(r, a)
         /\ Telemetry(a.block) # {}
         /\ (\A i \in DOMAIN a.list : a.list[i].id = TelemObcTemp) => None \notin Telemetry(a.block)
<1>1. PICK list \in TelemetryLists :
        a = [kind |-> "telemetry", call |-> n, list |-> TelemetryPacket(list).list,
             block |-> TelemetryPacket(list).block]
  BY DEF TelemetryAnswers
<1>2. list \in Seq(Datum) /\ Sized(list)
  <2>1. /\ TelemetryLists \subseteq Seq(Datum)
        /\ \A i \in DOMAIN list :
             list[i].id \in DOMAIN ParameterLen => Len(list[i].parameter) = ParameterLen[list[i].id]
    BY SessionAssumption, Zenon DEF Datum
  <2>2. list \in Seq(Datum)
    BY <2>1
  <2>3. DOMAIN list = 1..Len(list)
    BY <2>2
  <2>. QED
    BY <2>1, <2>2, <2>3 DEF Sized, Known
<1>3. RsDecodedDataSize \in Nat /\ RsDecodedDataSize >= MaxTelemetryDataSize /\ RsDecodedDataSize # 0
  BY SessionAssumption DEF MaxTelemetryDataSize
<1>4. a.kind = "telemetry" /\ a.call = n
      /\ a.list = TelemetryPacket(list).list /\ a.block = TelemetryPacket(list).block
  BY <1>1
<1>5. UnpackTelem(a.block) = {a.list}
  BY <1>2, <1>3, <1>4, TelemetryRead
<1>6. a.block # <<>>
  <2>1. Len(a.block) = RsDecodedDataSize
    BY <1>2, <1>3, <1>4, PacketBytes
  <2>. QED
    BY <1>3, <2>1
<1>7. Telemetry(a.block) =
        {IF \E i \in DOMAIN a.list : a.list[i].id # TelemObcTemp THEN None
         ELSE [kind |-> "telemetry", list |-> a.list]}
  BY <1>5 DEF Telemetry
<1>8. CASE \E i \in DOMAIN a.list : a.list[i].id # TelemObcTemp
  <2>1. Telemetry(a.block) = {None}
    BY <1>7, <1>8
  <2>. QED
    BY <1>4, <1>6, <1>8, <2>1
<1>9. CASE ~\E i \in DOMAIN a.list : a.list[i].id # TelemObcTemp
  <2>1. Telemetry(a.block) = {[kind |-> "telemetry", list |-> a.list]}
    BY <1>7, <1>9
  <2>2. [kind |-> "telemetry", list |-> a.list] # None
    <3>1. [kind |-> "telemetry", list |-> a.list].kind # None.kind
      BY DEF None
    <3>. QED
      BY <3>1
  <2>. QED
    BY <1>4, <1>6, <2>1, <2>2 DEF Shows
<1>. QED
  BY <1>8, <1>9

-----------------------------------------------------------------------------
(* Which call an answer answers *)

\* the answers to the last call
Current == {a \in answers : a.call = calls}

AnswersTo(n, id) ==
  IF id = CmdDownlinkTelem THEN TelemetryAnswers(n) ELSE ResponseAnswers(n, id)

\* when nothing was outstanding as the last call was made, whatever is due or
\* arrives answers this call
OnlyCurrent == clear => due \subseteq Current /\ line \in Seq(OnTheLine(Current))

\* while send_command waits, the answers to its call are answers to its command
Answering ==
  mode = "commanding" =>
    /\ command.id \in 1..(NumCmdCallbacks - 1)
    /\ Current \subseteq AnswersTo(calls, command.id)

Attributed == clear /\ framed => \E a \in Current : Shows(returned, a)

Attribution == OnlyCurrent /\ Answering /\ Attributed

LEMMA AttributionAfter ==
  ASSUME Attribution, UNCHANGED <<calls, answers, clear>>,
         clear => due' \subseteq Current /\ line' \in Seq(OnTheLine(Current)),
         mode' = "commanding" => mode = "commanding" /\ command' = command,
         clear /\ framed' => \E a \in Current : Shows(returned', a)
  PROVE  Attribution'
<1>1. Current' = Current
  BY DEF Current
<1>2. OnlyCurrent'
  BY <1>1 DEF OnlyCurrent
<1>3. Answering'
  BY <1>1 DEF Attribution, Answering
<1>4. Attributed'
  BY <1>1 DEF Attributed
<1>. QED
  BY <1>2, <1>3, <1>4 DEF Attribution

\* A call is made: what was decided before it is no answer to it.
LEMMA AttributionCalled ==
  ASSUME IInv, NEW possible, \A a \in possible : a.call = calls + 1,
         Hear(possible), Open, Count
  PROVE  Current' \subseteq possible /\ OnlyCurrent' /\ Attributed'
<1>1. /\ \A a \in answers' : a \in answers \/ a \in possible
      /\ calls' = calls + 1 /\ calls \in Nat /\ \A a \in answers : a.call \in 1..calls
      /\ clear' = NothingOutstanding
  BY SessionAssumption DEF Hear, Count, IInv, Satellite
<1>2. \A a \in answers : a.call # calls + 1
  BY <1>1
<1>3. Current' \subseteq possible
  BY <1>1, <1>2 DEF Current
<1>4. ASSUME clear' PROVE due' \subseteq Current'
  <2>1. due = {}
    BY <1>1, <1>4 DEF NothingOutstanding
  <2>2. \A a \in due' : a \in possible /\ a \in answers'
    BY <2>1 DEF Hear
  <2>. QED
    BY <1>1, <2>2 DEF Current
<1>5. ASSUME clear' PROVE line' \in Seq(OnTheLine(Current'))
  <2>1. \A i \in DOMAIN line' : ~IsPacket(line'[i])
    BY <1>1, <1>5 DEF NothingOutstanding
  <2>2. line' \in Seq(OnTheLine(answers))
    BY EmptySeq DEF Open, IInv, LineGenuine
  <2>3. /\ Len(line') \in Nat /\ DOMAIN line' = 1..Len(line')
        /\ line' = [i \in 1..Len(line') |-> line'[i]]
        /\ \A i \in 1..Len(line') : line'[i] \in OnTheLine(answers)
    BY <2>2
  <2>4. \A i \in 1..Len(line') : line'[i] \in OnTheLine(Current')
    BY <2>1, <2>3 DEF OnTheLine, Packet, IsPacket
  <2>5. line' \in [1..Len(line') -> OnTheLine(Current')]
    BY <2>3, <2>4
  <2>. QED
    BY <2>3, <2>5, SeqDef
<1>6. OnlyCurrent'
  BY <1>4, <1>5 DEF OnlyCurrent
<1>7. Attributed'
  BY DEF Attributed, Open
<1>. QED
  BY <1>3, <1>6, <1>7

LEMMA AttributedCommand ==
  ASSUME IInv, SendCommand
  PROVE  Attribution'
<1>1. PICK a \in Arguments :
        LET g == GenerateCommand(a)
        IN  /\ g.command.kind = "command" /\ g.command.id # CmdEndOfFrame
            /\ command' = g.command /\ tagged' = g.tagged
            /\ Hear(IF g.command.id = CmdDownlinkTelem THEN TelemetryAnswers(calls + 1)
                    ELSE ResponseAnswers(calls + 1, g.command.id))
  BY DEF SendCommand
<1>. DEFINE id == GenerateCommand(a).command.id
            possible == AnswersTo(calls + 1, id)
<1>2. Hear(possible) /\ Open /\ Count /\ command'.id = id
  BY <1>1 DEF SendCommand, AnswersTo
<1>3. id \in 1..(NumCmdCallbacks - 1)
  BY <1>1, CommandsSent
<1>4. /\ \A b \in TelemetryAnswers(calls + 1) : b.call = calls + 1
      /\ \A b \in ResponseAnswers(calls + 1, id) : b.call = calls + 1
  BY DEF TelemetryAnswers, ResponseAnswers
<1>5. \A b \in possible : b.call = calls + 1
  BY <1>4 DEF AnswersTo
<1>6. calls' = calls + 1
  BY <1>2 DEF Count
<1>. HIDE DEF id, possible
<1>7. Current' \subseteq possible /\ OnlyCurrent' /\ Attributed'
  BY <1>2, <1>5, AttributionCalled
<1>8. Current' \subseteq AnswersTo(calls', command'.id)
  BY <1>2, <1>6, <1>7 DEF possible
<1>9. Answering'
  BY <1>2, <1>3, <1>8 DEF Answering
<1>. QED
  BY <1>7, <1>9 DEF Attribution

LEMMA AttributedConnect ==
  ASSUME IInv, SendConnRequest
  PROVE  Attribution'
<1>1. Hear({AckAnswer(calls + 1)}) /\ Open /\ Count /\ mode' = "connecting"
  BY DEF SendConnRequest
<1>2. \A a \in {AckAnswer(calls + 1)} : a.call = calls + 1
  BY DEF AckAnswer
<1>3. OnlyCurrent' /\ Attributed'
  BY <1>1, <1>2, AttributionCalled
<1>4. Answering'
  BY <1>1 DEF Answering
<1>. QED
  BY <1>3, <1>4 DEF Attribution

LEMMA AttributedSent ==
  ASSUME IInv, Attribution, SendAnswer
  PROVE  Attribution'
<1>1. PICK a \in due, noise \in Noises :
        due' = due \ {a} /\ line' = Append(line, Arriving(a, noise))
  BY DEF SendAnswer
<1>2. UNCHANGED <<mode, command, returned, framed, calls, answers, clear>>
  BY DEF SendAnswer, result, history
<1>3. ASSUME clear PROVE due' \subseteq Current /\ line' \in Seq(OnTheLine(Current))
  <2>1. due \subseteq Current /\ line \in Seq(OnTheLine(Current))
    BY <1>3 DEF Attribution, OnlyCurrent
  <2>2. Arriving(a, noise) \in OnTheLine(Current)
    <3>1. Byte(NotText) \in Octets
      BY DEF Octets, NotText
    <3>. QED
      BY <2>1, <3>1 DEF Arriving, OnTheLine
  <2>. QED
    BY <1>1, <2>1, <2>2, AppendProperties
<1>4. ASSUME clear, framed' PROVE \E b \in Current : Shows(returned', b)
  BY <1>2, <1>4 DEF Attribution, Attributed
<1>. QED
  BY <1>2, <1>3, <1>4, AttributionAfter

LEMMA AttributedWritten ==
  ASSUME IInv, Attribution, WriteLog
  PROVE  Attribution'
<1>1. PICK x \in Octets : line' = Append(line, x)
  BY ByteWritten
<1>2. UNCHANGED <<mode, command, returned, framed, due, calls, answers, clear>>
  BY DEF WriteLog, result, history
<1>3. ASSUME clear PROVE due' \subseteq Current /\ line' \in Seq(OnTheLine(Current))
  <2>1. due \subseteq Current /\ line \in Seq(OnTheLine(Current)) /\ x \in OnTheLine(Current)
    BY <1>3 DEF Attribution, OnlyCurrent, OnTheLine
  <2>. QED
    BY <1>1, <1>2, <2>1, AppendProperties
<1>4. ASSUME clear, framed' PROVE \E b \in Current : Shows(returned', b)
  BY <1>2, <1>4 DEF Attribution, Attributed
<1>. QED
  BY <1>2, <1>3, <1>4, AttributionAfter

\* A read of any of the three leaves what was there.
LEMMA AttributedRead ==
  ASSUME Attribution, NEW read \in Reads, Read(read),
         UNCHANGED <<due, calls, answers, clear>>, mode' # "commanding",
         clear /\ framed' => \E a \in Current : Shows(returned', a)
  PROVE  Attribution'
<1>1. ASSUME clear PROVE due' \subseteq Current /\ line' \in Seq(OnTheLine(Current))
  BY <1>1, ReadFrom DEF Attribution, OnlyCurrent
<1>. QED
  BY <1>1, AttributionAfter

\* What is parsed from an answer to the command shows it.
LEMMA FrameShows ==
  ASSUME command.id \in 1..(NumCmdCallbacks - 1),
         NEW n, NEW a \in AnswersTo(n, command.id), NEW r \in OfFrame(a.block), r # None
  PROVE  Shows(r, a)
<1>1. CASE command.id = CmdDownlinkTelem
  <2>1. a \in TelemetryAnswers(n) /\ r \in Telemetry(a.block)
    BY <1>1 DEF AnswersTo, OfFrame
  <2>. QED
    BY <2>1, TelemetryShown
<1>2. CASE command.id # CmdDownlinkTelem
  <2>1. a \in ResponseAnswers(n, command.id) /\ r \in ParseCommandResponse(a.block)
    BY <1>2 DEF AnswersTo, OfFrame
  <2>. QED
    BY <2>1, ResponseShown
<1>. QED
  BY <1>1, <1>2

LEMMA AttributedAnswer ==
  ASSUME IInv, Attribution, ReadAnswer
  PROVE  Attribution'
<1>1. PICK read \in Reads :
        /\ Read(read)
        /\ returned' \in OrNone(Results(read))
        /\ framed' = (/\ HasFlag(read) /\ command.id # CmdExecObcReset
                      /\ returned' # None)
  BY DEF ReadAnswer
<1>2. /\ mode = "commanding" /\ mode' = "idle"
      /\ UNCHANGED <<due, calls, answers, clear>>
  BY DEF ReadAnswer, satellite, history
<1>3. ASSUME clear, framed' PROVE \E a \in Current : Shows(returned', a)
  <2>1. HasFlag(read) /\ command.id # CmdExecObcReset /\ returned' # None
    BY <1>1, <1>3
  <2>2. returned' \in Results(read)
    BY <1>1, <2>1 DEF OrNone
  <2>3. PICK d \in DecodeFrame(FrameBytes(read)) : returned' \in OfFrame(d)
    BY <2>1, <2>2 DEF Results
  <2>4. read \in Seq(OnTheLine(Current))
    BY <1>3, ReadFrom DEF Attribution, OnlyCurrent
  <2>5. FrameBytes(read) \in Seq(OnTheLine(Current))
    BY <2>1, <2>4, Around
  <2>6. PICK a \in Current : d = a.block
    BY <2>5, DecodedBlock
  <2>7. command.id \in 1..(NumCmdCallbacks - 1) /\ a \in AnswersTo(calls, command.id)
    BY <1>2 DEF Attribution, Answering
  <2>8. Shows(returned', a)
    BY <2>1, <2>3, <2>6, <2>7, FrameShows
  <2>. QED
    BY <2>8
<1>. QED
  BY <1>1, <1>2, <1>3, AttributedRead

LEMMA AttributionInvariant == Spec => []Attribution
<1>1. Init => Attribution
  <2>. SUFFICES ASSUME Init PROVE Attribution
    OBVIOUS
  <2>1. OnlyCurrent
    BY EmptySeq DEF Init, OnlyCurrent
  <2>. QED
    BY <2>1 DEF Init, Attribution, Answering, Attributed
<1>2. IInv /\ Attribution /\ [Next]_vars => Attribution'
  <2>. SUFFICES ASSUME IInv, Attribution, [Next]_vars PROVE Attribution'
    OBVIOUS
  <2>0. mode # "idle" => ~framed
    BY DEF IInv, ReturnedGenuine
  <2>1. CASE SendAnswer
    BY <2>1, AttributedSent
  <2>2. CASE WriteLog
    BY <2>2, AttributedWritten
  <2>3. CASE SendCommand
    BY <2>3, AttributedCommand
  <2>4. CASE ReadAnswer
    BY <2>4, AttributedAnswer
  <2>5. CASE SendConnRequest
    BY <2>5, AttributedConnect
  <2>6. CASE ReadAck
    <3>1. PICK read \in Reads : Read(read)
      BY <2>6 DEF ReadAck
    <3>2. mode' = "idle" /\ ~framed' /\ UNCHANGED <<due, calls, answers, clear>>
      BY <2>0, <2>6 DEF ReadAck, satellite
    <3>. QED
      BY <3>1, <3>2, AttributedRead
  <2>7. CASE StartPoll
    <3>1. /\ mode' = "polling" /\ ~framed' /\ line' \in {line, <<>>}
          /\ UNCHANGED <<due, calls, answers, clear>>
      BY <2>7 DEF StartPoll, Open, satellite, history
    <3>2. ASSUME clear PROVE due' \subseteq Current /\ line' \in Seq(OnTheLine(Current))
      BY <3>1, <3>2, EmptySeq DEF Attribution, OnlyCurrent
    <3>. QED
      BY <3>1, <3>2, AttributionAfter
  <2>8. CASE PollRead \/ PollRaises
    <3>1. PICK read \in Reads : Read(read)
      BY <2>8 DEF PollRead, PollRaises
    <3>2. mode' # "commanding" /\ ~framed' /\ UNCHANGED <<due, calls, answers, clear>>
      BY <2>0, <2>8 DEF PollRead, PollRaises, satellite, history, result
    <3>. QED
      BY <3>1, <3>2, AttributedRead
  <2>9. CASE RefuseCommand \/ StopPoll
    <3>1. /\ mode' # "commanding" /\ ~framed' /\ line' = line
          /\ UNCHANGED <<due, calls, answers, clear>>
      BY <2>0, <2>9 DEF RefuseCommand, StopPoll, satellite, history
    <3>2. ASSUME clear PROVE due' \subseteq Current /\ line' \in Seq(OnTheLine(Current))
      BY <3>1, <3>2 DEF Attribution, OnlyCurrent
    <3>. QED
      BY <3>1, <3>2, AttributionAfter
  <2>10. CASE UNCHANGED vars
    <3>1. UNCHANGED <<mode, command, line, returned, framed, due, calls, answers, clear>>
      BY <2>10 DEF vars, satellite, history, result
    <3>2. ASSUME clear PROVE due' \subseteq Current /\ line' \in Seq(OnTheLine(Current))
      BY <3>1, <3>2 DEF Attribution, OnlyCurrent
    <3>3. ASSUME clear, framed' PROVE \E a \in Current : Shows(returned', a)
      BY <3>1, <3>3 DEF Attribution, Attributed
    <3>. QED
      BY <3>1, <3>2, <3>3, AttributionAfter
  <2>. QED
    BY <2>1, <2>2, <2>3, <2>4, <2>5, <2>6, <2>7, <2>8, <2>9, <2>10 DEF Next
<1>. QED
  BY <1>1, <1>2, Invariance, PTL DEF Spec

\* What send_command shows its operator answers the command it sent and says
\* what the satellite said, provided no answer was outstanding when it was sent:
\* whatever text, noise and halved packets the reads bring.
THEOREM AnswersAreAttributed == Spec => []AnswersAttributed
<1>1. Attribution => AnswersAttributed
  BY DEF Attribution, Attributed, Current, AnswersAttributed
<1>. QED
  BY <1>1, AttributionInvariant, PTL

-----------------------------------------------------------------------------
(* An answer that arrives whole gets to the operator *)

\* every answer the satellite decided on is one it can make
Decided ==
  \A a \in answers :
    \/ a \in TelemetryAnswers(a.call)
    \/ \E id \in 1..(NumCmdCallbacks - 1) : a \in ResponseAnswers(a.call, id)
    \/ a = AckAnswer(a.call)

LEMMA DecidedInvariant == Spec => []Decided
<1>1. Init => Decided
  BY DEF Init, Decided
<1>2. IInv /\ Decided /\ [Next]_vars => Decided'
  <2>. SUFFICES ASSUME IInv, Decided, [Next]_vars PROVE Decided'
    OBVIOUS
  <2>1. CASE SendCommand
    <3>1. PICK a \in Arguments :
            LET g == GenerateCommand(a)
            IN  /\ g.command.kind = "command" /\ g.command.id # CmdEndOfFrame
                /\ Hear(IF g.command.id = CmdDownlinkTelem THEN TelemetryAnswers(calls + 1)
                        ELSE ResponseAnswers(calls + 1, g.command.id))
      BY <2>1 DEF SendCommand
    <3>. DEFINE id == GenerateCommand(a).command.id
    <3>2. id \in 1..(NumCmdCallbacks - 1)
      BY <3>1, CommandsSent
    <3>3. \A b \in answers' : \/ b \in answers \/ b \in TelemetryAnswers(calls + 1)
                              \/ b \in ResponseAnswers(calls + 1, id)
      BY <3>1 DEF Hear
    <3>4. /\ \A b \in TelemetryAnswers(calls + 1) : b.call = calls + 1
          /\ \A b \in ResponseAnswers(calls + 1, id) : b.call = calls + 1
      BY DEF TelemetryAnswers, ResponseAnswers
    <3>. HIDE DEF id
    <3>. QED
      BY <3>2, <3>3, <3>4 DEF Decided
  <2>2. CASE SendConnRequest
    <3>1. \A b \in answers' : b \in answers \/ b = AckAnswer(calls + 1)
      BY <2>2 DEF SendConnRequest, Hear
    <3>2. AckAnswer(calls + 1).call = calls + 1
      BY DEF AckAnswer
    <3>. QED
      BY <3>1, <3>2 DEF Decided
  <2>3. CASE answers' = answers
    BY <2>3 DEF Decided
  <2>. QED
    BY <2>1, <2>2, <2>3
       DEF Next, SendAnswer, WriteLog, RefuseCommand, ReadAnswer, ReadAck, StartPoll, StopPoll,
           PollRead, PollRaises, vars, history
<1>. QED
  BY <1>1, <1>2, Invariance, PTL DEF Spec

\* A clean read takes the whole line, and what decode_frame makes of it is the
\* block of the answer.
LEMMA CleanRead ==
  ASSUME IInv, NEW a, Clean(a), a.block # <<>>, NEW read \in Reads, Read(read)
  PROVE  read = line /\ HasFlag(line) /\ DecodeFrame(FrameBytes(line)) = {a.block}
<1>1. line' = <<>> /\ read = line
  BY DEF Clean, Read
<1>2. PICK i \in DOMAIN line : line[i] \in {Packet(a, "none"), Packet(a, "data")} /\ FlagAt(line) = {i}
  BY DEF Clean
<1>3. HasFlag(line) /\ FirstFlag(line) = i /\ LastFlag(line) = i
  <2>1. HasFlag(line)
    BY <1>2 DEF HasFlag
  <2>2. line \in Seq(OnTheLine(answers))
    BY DEF IInv, LineGenuine
  <2>. QED
    BY <1>2, <2>1, <2>2, FirstFlagLeast, LastFlagGreatest
<1>4. Len(FrameBytes(line)) = 1 /\ FrameBytes(line)[1] = line[i]
  <2>1. line \in Seq(OnTheLine(answers)) /\ i \in 1..Len(line)
    BY DEF IInv, LineGenuine
  <2>2. FrameBytes(line) = SubSeq(line, i, i)
    BY <1>3 DEF FrameBytes
  <2>3. i \in Nat /\ \A j \in i..i : line[j] \in OnTheLine(answers)
    BY <2>1
  <2>4. /\ Len(SubSeq(line, i, i)) = IF i <= i THEN i - i + 1 ELSE 0
        /\ \A j \in 1..(i - i + 1) : SubSeq(line, i, i)[j] = line[i + j - 1]
    BY <2>3, SubSeqProperties
  <2>. DEFINE one == SubSeq(line, i, i)
  <2>. HIDE DEF one
  <2>5. Len(one) = 1
    <3>1. Len(one) = IF i <= i THEN i - i + 1 ELSE 0
      BY <2>4 DEF one
    <3>. QED
      BY <2>3, <3>1
  <2>6. one[1] = line[i]
    <3>1. 1 \in 1..(i - i + 1) /\ i + 1 - 1 = i
      BY <2>3
    <3>2. one[1] = line[i + 1 - 1]
      BY <2>4, <3>1 DEF one
    <3>. QED
      BY <3>1, <3>2
  <2>. QED
    BY <2>2, <2>5, <2>6 DEF one
<1>5. /\ IsPacket(line[i]) /\ line[i].of.block = a.block /\ line[i].noise \in {"none", "data"}
  BY <1>2 DEF Packet, IsPacket
<1>6. DecodeFrame(FrameBytes(line)) = {a.block}
  BY <1>4, <1>5 DEF DecodeFrame
<1>. QED
  BY <1>1, <1>3, <1>6

\* send_command returns it.
LEMMA CleanAnswered ==
  ASSUME IInv, Attribution, NEW a \in answers, Clean(a),
         a.kind = "response" => Len(a.data) < ResponseDataMax /\ ~tagged,
         a.kind = "telemetry" => \A i \in DOMAIN a.list : a.list[i].id = TelemObcTemp,
         ReadAnswer, a.call = calls, command.id # CmdExecObcReset
  PROVE  Shows(returned', a) /\ log' = log \o Outer(line)
<1>1. PICK read \in Reads :
        /\ Read(read)
        /\ returned' \in OrNone(Results(read))
        /\ log' = log \o Logged(read)
  BY DEF ReadAnswer
<1>2. /\ command.id \in 1..(NumCmdCallbacks - 1)
      /\ a \in AnswersTo(calls, command.id)
  BY DEF ReadAnswer, Attribution, Answering, Current
<1>3. /\ a.block # <<>> /\ OfFrame(a.block) # {}
      /\ \A r \in OfFrame(a.block) : r # None /\ Shows(r, a)
  <2>1. CASE command.id = CmdDownlinkTelem
    <3>1. a \in TelemetryAnswers(calls)
      BY <1>2, <2>1 DEF AnswersTo
    <3>2. /\ a.kind = "telemetry" /\ a.block # <<>> /\ Telemetry(a.block) # {}
          /\ \A r \in Telemetry(a.block) : r # None => Shows(r, a)
          /\ None \notin Telemetry(a.block)
      BY <3>1, TelemetryShown
    <3>. QED
      BY <2>1, <3>2 DEF OfFrame
  <2>2. CASE command.id # CmdDownlinkTelem
    <3>1. a \in ResponseAnswers(calls, command.id)
      BY <1>2, <2>2 DEF AnswersTo
    <3>2. /\ a.kind = "response" /\ a.block # <<>>
          /\ \A r \in ParseCommandResponse(a.block) : Shows(r, a)
          /\ Len(a.data) < ResponseDataMax => ParseCommandResponse(a.block) # {}
      BY <1>2, <3>1, ResponseShown
    <3>3. \A r \in ParseCommandResponse(a.block) : r # None
      <4>. SUFFICES ASSUME NEW r \in ParseCommandResponse(a.block) PROVE r # None
        OBVIOUS
      <4>1. r.kind = "response" /\ None.kind = "none"
        BY DEF ParseCommandResponse, None
      <4>. QED
        BY <4>1
    <3>. QED
      BY <2>2, <3>2, <3>3 DEF OfFrame
  <2>. QED
    BY <2>1, <2>2
<1>4. read = line /\ HasFlag(line) /\ DecodeFrame(FrameBytes(line)) = {a.block}
  BY <1>1, <1>3, CleanRead
<1>5. Decodes(Outer(line))
  BY DEF Clean
<1>6. Results(line) = OfFrame(a.block)
  BY <1>4, <1>5 DEF Results
<1>7. returned' \in OfFrame(a.block)
  BY <1>1, <1>3, <1>4, <1>6 DEF OrNone
<1>8. log' = log \o Outer(line)
  BY <1>1, <1>4, <1>5 DEF Logged
<1>. QED
  BY <1>3, <1>7, <1>8

\* poll logs it, between what came before and after it.
LEMMA CleanPolled ==
  ASSUME IInv, Decided, NEW a \in answers, Clean(a),
         a.kind = "response", Len(a.data) < ResponseDataMax, PollRead
  PROVE  \E report \in {log'[i] : i \in DOMAIN log'} :
           Shows(report, a) /\ log' = log \o Left(line) \o <<report>> \o Right(line)
<1>1. PICK read \in Reads : Read(read) /\ \E data_string \in Polled(read) : log' = log \o data_string
  BY DEF PollRead
<1>2. PICK id \in 1..(NumCmdCallbacks - 1) : a \in ResponseAnswers(a.call, id)
  <2>1. a \notin TelemetryAnswers(a.call)
    BY TelemetryShown
  <2>2. a # AckAnswer(a.call)
    <3>1. AckAnswer(a.call).kind = "ack"
      BY DEF AckAnswer
    <3>. QED
      BY <3>1
  <2>. QED
    BY <2>1, <2>2 DEF Decided
<1>3. /\ a.block # <<>>
      /\ \A r \in ParseCommandResponse(a.block) : Shows(r, a)
  BY <1>2, ResponseShown
<1>4. read = line /\ HasFlag(line) /\ DecodeFrame(FrameBytes(line)) = {a.block}
  BY <1>1, <1>3, CleanRead
<1>5. PICK data_string \in Polled(line) : log' = log \o data_string
  BY <1>1, <1>4
<1>6. PICK report \in Reports(a.block) : data_string = Left(line) \o <<report>> \o Right(line)
  BY <1>4, <1>5 DEF Polled, Clean
<1>7. Shows(report, a)
  BY <1>3, <1>6 DEF Reports
<1>. DEFINE S == InTheLog(answers) \cup OnTheLine(answers) \cup {report}
            left == Left(line)    right == Right(line)
<1>8. /\ log \in Seq(S) /\ left \in Seq(S) /\ right \in Seq(S) /\ <<report>> \in Seq(S)
  <2>1. log \in Seq(InTheLog(answers)) /\ line \in Seq(OnTheLine(answers))
    BY DEF IInv, LogGenuine, LineGenuine
  <2>2. left \in Seq(OnTheLine(answers)) /\ right \in Seq(OnTheLine(answers))
    BY <1>4, <2>1, Around
  <2>3. InTheLog(answers) \subseteq S /\ OnTheLine(answers) \subseteq S /\ report \in S
    OBVIOUS
  <2>. HIDE DEF S, left, right
  <2>. QED
    BY <2>1, <2>2, <2>3, SeqMonotonic
<1>. HIDE DEF S, left, right
<1>9. log \o (left \o <<report>> \o right) = log \o left \o <<report>> \o right
  <2>. DEFINE one == <<report>>    middle == Joined(left, one)
  <2>1. middle \in Seq(S)
    BY <1>8, ConcatProperties DEF Joined
  <2>2. one \in Seq(S)
    BY <1>8
  <2>. HIDE DEF one, middle
  <2>3. Joined(Joined(log, middle), right) = Joined(log, Joined(middle, right))
    BY <1>8, <2>1, JoinedAssociative, SMT
  <2>4. Joined(Joined(log, left), one) = Joined(log, Joined(left, one))
    BY <1>8, <2>2, JoinedAssociative, SMT
  <2>. QED
    BY <2>3, <2>4, Zenon DEF Joined, one, middle
<1>10. log' = log \o left \o <<report>> \o right
  BY <1>5, <1>6, <1>9 DEF left, right
<1>11. \E i \in DOMAIN log' : log'[i] = report
  <2>. DEFINE before == log \o left
  <2>1. before \in Seq(S)
    BY <1>8, ConcatProperties
  <2>. HIDE DEF before
  <2>2. /\ before \o <<report>> \in Seq(S) /\ Len(before) \in Nat
        /\ Len(before \o <<report>>) = Len(before) + 1
        /\ (before \o <<report>>)[Len(before) + 1] = report
    BY <1>8, <2>1
  <2>. DEFINE upto == before \o <<report>>    n == Len(before) + 1
  <2>. HIDE DEF upto
  <2>3. upto \in Seq(S) /\ Len(upto) = n /\ n \in 1..Len(upto) /\ upto[n] = report
    BY <2>2 DEF upto
  <2>4. n \in DOMAIN (upto \o right) /\ (upto \o right)[n] = report
    <3>. HIDE DEF n
    <3>0. upto \in Seq(S) /\ right \in Seq(S)
      BY <1>8, <2>3
    <3>1. /\ upto \o right \in Seq(S) /\ Len(upto \o right) = Len(upto) + Len(right)
          /\ Len(upto) \in Nat /\ Len(right) \in Nat
          /\ \A j \in 1..Len(upto) : (upto \o right)[j] = upto[j]
      BY <3>0, ConcatProperties, LenProperties
    <3>2. DOMAIN (upto \o right) = 1..(Len(upto) + Len(right))
      BY <3>1
    <3>. QED
      BY <2>3, <3>1, <3>2
  <2>. QED
    BY <1>10, <2>4 DEF upto, before
<1>. QED
  BY <1>7, <1>10, <1>11 DEF left, right

\* An answer that arrives whole is shown: send_command returns it if it answers
\* the command, and poll writes its report into the log in its place, in every
\* state, with any text around it.
THEOREM CleanAnswersArrive == Spec => CleanAnswersReach
<1>. DEFINE Wanted(a) ==
              /\ Clean(a)
              /\ a.kind = "response" =>
                   Len(a.data) < ResponseDataMax /\ (mode = "commanding" => ~tagged)
              /\ a.kind = "telemetry" =>
                   mode = "commanding" /\ \A i \in DOMAIN a.list : a.list[i].id = TelemObcTemp
<1>1. ASSUME IInv, Attribution, Decided, [Next]_vars
      PROVE  [\A a \in answers :
                Wanted(a)
                => /\ ReadAnswer /\ a.call = calls /\ a.kind # "ack" /\ command.id # CmdExecObcReset
                      => Shows(returned', a) /\ log' = log \o Outer(line)
                   /\ PollRead /\ a.kind = "response"
                      => \E report \in {log'[i] : i \in DOMAIN log'} :
                           Shows(report, a) /\ log' = log \o Left(line) \o <<report>> \o Right(line)]_vars
  <2>. SUFFICES ASSUME NEW a \in answers, Wanted(a)
                PROVE  /\ ReadAnswer /\ a.call = calls /\ a.kind # "ack" /\ command.id # CmdExecObcReset
                          => Shows(returned', a) /\ log' = log \o Outer(line)
                       /\ PollRead /\ a.kind = "response"
                          => \E report \in {log'[i] : i \in DOMAIN log'} :
                               Shows(report, a) /\ log' = log \o Left(line) \o <<report>> \o Right(line)
    OBVIOUS
  <2>1. ASSUME ReadAnswer, a.call = calls, command.id # CmdExecObcReset
        PROVE  Shows(returned', a) /\ log' = log \o Outer(line)
    <3>1. mode = "commanding"
      BY <2>1 DEF ReadAnswer
    <3>. QED
      BY <1>1, <2>1, <3>1, CleanAnswered
  <2>2. ASSUME PollRead, a.kind = "response"
        PROVE  \E report \in {log'[i] : i \in DOMAIN log'} :
                 Shows(report, a) /\ log' = log \o Left(line) \o <<report>> \o Right(line)
    BY <1>1, <2>2, CleanPolled
  <2>. QED
    BY <2>1, <2>2
<1>. QED
  BY <1>1, Invariance, AttributionInvariant, DecidedInvariant, PTL DEF Spec, CleanAnswersReach
=============================================================================
