-------------------------- MODULE LogReadingProofs --------------------------
(***************************************************************************)
(* What the readers of a run's log make of it, for any number of processes, *)
(* turns and amounts, and for lines of any length.                         *)
(*                                                                         *)
(* Usage: the reader that looks for drops never counts an amount twice,     *)
(* since the amount it has last seen is either that of the process that     *)
(* runs, which only grows, or that of a process that is over (Peaks).       *)
(* Turns: the tickets in the queue have the numbers that follow that of the *)
(* last message, so a restart, which counts the messages, goes on where the *)
(* dropped tickets began (Turns).                                           *)
(* Long lines: what the reader holds, what it has dropped and what is left  *)
(* unread are together the log, however the buffer cuts it (LineInv).       *)
(***************************************************************************)
EXTENDS MCReading, SequenceTheorems, TLAPS

(* The shape of the state; without a process nothing runs or waits. *)
UsageShape ==
  /\ kind \in RunKinds
  /\ process \in [alive : BOOLEAN, amount : Nat, said : Nat] /\ process.said <= process.amount
  /\ starts \in 0..MaxStarts
  /\ next \in Nat \ {NoTurn} /\ active \in Nat
  /\ queue \in Seq(Nat \ {NoTurn}) /\ indexes \in Seq(Nat \ {NoTurn})
  /\ messages \in Nat /\ messages + Len(queue) <= MaxTurns
  /\ afresh \in BOOLEAN /\ hidden \in BOOLEAN
  /\ ~process.alive => active = NoTurn /\ queue = <<>>

(* The amounts are numbers. *)
Tallies == spent \in Nat /\ extracted \in Tally /\ listed \in Tally

\* A reader that looks for drops: the highest amount since the last drop is
\* not below the last amount; what the process has reported is the last
\* amount, and is on top of the processes before.
Peaks ==
  kind = "claude" =>
    /\ extracted.previous <= extracted.peak
    /\ extracted.previous = 0 => extracted.peak = 0
    /\ process.said > 0 => extracted.previous = process.said
    /\ Shown(extracted) <= spent
    /\ extracted.total + process.said <= spent
    /\ ~hidden => /\ Shown(extracted) = spent
                  /\ process.said > 0 => extracted.peak = process.said

\* A reader that adds amounts up has no peak.
Sums == PerTurn => extracted.peak = 0 /\ extracted.total = spent

\* The turns of these runs are numbered by their messages.
Numbered == kind \in {"claude", "imported", "resumed"} /\ ~afresh

\* Turns have the number of their message.
Turns ==
  Numbered =>
    /\ process.alive => next = messages + Len(queue) + 1
    /\ \A i \in DOMAIN queue : queue[i] = messages + i
    /\ active # NoTurn => active = messages
    /\ \A i \in DOMAIN indexes :
         indexes[i] <= messages /\ (active # NoTurn => indexes[i] < messages)

(* The inductive invariant. *)
UsageInv == UsageShape /\ Tallies /\ Peaks /\ Sums /\ ListedAlike /\ Turns /\ TurnsApart

-----------------------------------------------------------------------------
(* A run that has not begun satisfies the invariant. *)
LEMMA UsageStarts == Init => UsageInv
<1> SUFFICES ASSUME Init PROVE UsageInv
  OBVIOUS
<1> USE UsageAssumption DEF Init, NoProcess, NewTally, NoTurn
<1>0. Len(queue) = 0 /\ queue \in Seq(Nat \ {NoTurn}) /\ indexes \in Seq(Nat \ {NoTurn})
  OBVIOUS
<1>1. UsageShape
  <2>1. process \in [alive : BOOLEAN, amount : Nat, said : Nat] /\ process.said <= process.amount
    OBVIOUS
  <2>2. afresh \in BOOLEAN /\ hidden \in BOOLEAN
    BY Zenon
  <2> QED  BY <1>0, <2>1, <2>2 DEF UsageShape
<1>1a. Tallies
  BY DEF Tallies, Tally
<1>2. Peaks /\ Sums /\ ListedAlike
  BY DEF Peaks, Sums, ListedAlike, Shown
<1>3. Turns /\ TurnsApart
  BY DEF Turns, TurnsApart
<1> QED  BY <1>1, <1>1a, <1>2, <1>3 DEF UsageInv

(* The records of processes. *)
Processes == [alive : BOOLEAN, amount : Nat, said : Nat]

(* What becomes of a process's record when a field is set. *)
LEMMA ProcessRecord ==
  ASSUME NEW p \in Processes
  PROVE  /\ p.alive \in BOOLEAN /\ p.amount \in Nat /\ p.said \in Nat
         /\ \A a \in Nat :
              LET q == [p EXCEPT !.amount = a, !.said = a]
              IN q \in Processes /\ q.alive = p.alive /\ q.amount = a /\ q.said = a
         /\ \A a \in Nat :
              LET q == [p EXCEPT !.amount = a]
              IN q \in Processes /\ q.alive = p.alive /\ q.amount = a /\ q.said = p.said
         /\ \A b \in BOOLEAN :
              LET q == [p EXCEPT !.alive = b]
              IN q \in Processes /\ q.alive = b /\ q.amount = p.amount /\ q.said = p.said
BY DEF Processes

(* Every step keeps the shape. *)
LEMMA ShapeSteps == ASSUME UsageShape, [Next]_vars PROVE UsageShape'
<1>a. /\ process \in Processes /\ process.said <= process.amount
      /\ process.amount \in Nat /\ process.said \in Nat
  BY DEF Processes, UsageShape
<1> USE UsageAssumption DEF UsageShape, NoTurn, log
<1>1. ASSUME NEW isNew \in BOOLEAN, Start(isNew) PROVE UsageShape'
  <2>1. /\ process' \in Processes /\ process'.said <= process'.amount /\ process'.alive
    <3>1. process' = [process EXCEPT !.alive = TRUE]
            \/ process' = [alive |-> TRUE, amount |-> 0, said |-> 0]
      BY <1>1 DEF Start, Begun, NoProcess
    <3>2. CASE process' = [process EXCEPT !.alive = TRUE]
      BY <1>a, <3>2, ProcessRecord
    <3>3. CASE process' = [alive |-> TRUE, amount |-> 0, said |-> 0]
      BY <3>3 DEF Processes
    <3> QED  BY <3>1, <3>2, <3>3
  <2>2. next' \in Nat \ {NoTurn}
    BY <1>1 DEF Start, InitialTurnIndex
  <2>3. /\ UNCHANGED <<kind, queue, active, messages, indexes, hidden>>
        /\ starts' = starts + 1 /\ starts < MaxStarts /\ afresh' \in BOOLEAN
    BY <1>1 DEF Start
  <2> QED  BY <2>1, <2>2, <2>3 DEF Processes
<1>2. ASSUME Send PROVE UsageShape'
  <2>1. /\ queue' \in Seq(Nat \ {NoTurn}) /\ Len(queue') = Len(queue) + 1
    BY <1>2 DEF Send
  <2> QED  BY <1>2, <2>1 DEF Send
<1>3. ASSUME StartUserTurn PROVE UsageShape'
  <2>1. /\ Tail(queue) \in Seq(Nat \ {NoTurn}) /\ Len(Tail(queue)) = Len(queue) - 1
        /\ Head(queue) \in Nat
    BY <1>3 DEF StartUserTurn
  <2> QED  BY <1>3, <2>1 DEF StartUserTurn
<1>4. ASSUME StartRalphTurn PROVE UsageShape'
  BY <1>4 DEF StartRalphTurn
<1>5. ASSUME NEW cost \in Amounts, Result(cost) PROVE UsageShape'
  <2>1. /\ process' = [process EXCEPT !.amount = process.amount + cost, !.said = process.amount + cost]
        /\ UNCHANGED <<kind, starts, next, queue, messages, afresh>> /\ active' \in {active, NoTurn}
        /\ hidden' \in BOOLEAN /\ active # NoTurn /\ process.alive
    BY <1>5 DEF Result
  <2>2. indexes' \in Seq(Nat \ {NoTurn})
    BY <1>5 DEF Result, Index
  <2>3. process' \in Processes /\ process'.said <= process'.amount /\ process'.alive
    <3> DEFINE a == process.amount + cost
    <3>1. a \in Nat
      BY <1>a
    <3>2. process' = [process EXCEPT !.amount = a, !.said = a]
      BY <2>1
    <3> HIDE DEF a
    <3>3. process' \in Processes /\ process'.alive = process.alive /\ process'.amount = a /\ process'.said = a
      BY <1>a, <3>1, <3>2, ProcessRecord
    <3> QED  BY <2>1, <3>1, <3>3
  <2> QED  BY <2>1, <2>2, <2>3 DEF Processes
<1>6. ASSUME NEW cost \in Amounts, GiveUp(cost) PROVE UsageShape'
  <2>1. process' = [process EXCEPT !.amount = process.amount + cost] /\ process.alive
    BY <1>6 DEF GiveUp
  <2>2. process' \in Processes /\ process'.said <= process'.amount /\ process'.alive
    <3>1. process.amount + cost \in Nat /\ process.said <= process.amount + cost
      BY <1>a
    <3> QED  BY <1>a, <2>1, <3>1, ProcessRecord
  <2> QED  BY <1>6, <2>2 DEF GiveUp, Processes
<1>7. ASSUME Ends PROVE UsageShape'
  <2>1. process' \in Processes /\ process'.said <= process'.amount
    BY <1>a, <1>7, ProcessRecord DEF Ends
  <2> QED  BY <1>7, <2>1 DEF Ends, Processes
<1>8. ASSUME UNCHANGED vars PROVE UsageShape'
  BY <1>8 DEF vars
<1> QED  BY <1>1, <1>2, <1>3, <1>4, <1>5, <1>6, <1>7, <1>8 DEF Next

(* A report, spelled out. *)
LEMMA TallySteps ==
  ASSUME UsageShape, Tallies, NEW cost \in Nat, Result(cost)
  PROVE  /\ Tallies'
         /\ extracted' = ExtractRunUsage(extracted, Said(cost))
         /\ listed' = ScanRun(listed, Said(cost))
         /\ process' = [process EXCEPT !.amount = process.amount + cost, !.said = process.amount + cost]
         /\ spent' = spent + (IF PerTurn THEN cost ELSE (process.amount + cost) - process.said)
         /\ hidden' = (hidden \/ Unseen(Said(cost)))
         /\ Said(cost) = (IF PerTurn THEN cost ELSE process.amount + cost)
         /\ UNCHANGED kind
<1>1. /\ extracted' = ExtractRunUsage(extracted, Said(cost))
      /\ listed' = ScanRun(listed, Said(cost))
      /\ process' = [process EXCEPT !.amount = process.amount + cost, !.said = process.amount + cost]
      /\ spent' = spent + (IF PerTurn THEN cost ELSE (process.amount + cost) - process.said)
      /\ hidden' = (hidden \/ Unseen(Said(cost)))
      /\ UNCHANGED kind
  <2>1. /\ extracted' = ExtractRunUsage(extracted, Said(cost))
        /\ listed' = ScanRun(listed, Said(cost))
        /\ UNCHANGED kind
    BY DEF Result
  <2>2. process' = [process EXCEPT !.amount = process.amount + cost, !.said = process.amount + cost]
    BY DEF Result
  <2>3. spent' = spent + (IF PerTurn THEN cost ELSE (process.amount + cost) - process.said)
    BY DEF Result
  <2>4. hidden' = (hidden \/ Unseen(Said(cost)))
    BY Zenon DEF Result
  <2> QED  BY <2>1, <2>2, <2>3, <2>4, Zenon
<1>2. Said(cost) = (IF PerTurn THEN cost ELSE process.amount + cost) /\ Said(cost) \in Nat
  BY DEF Said, UsageShape
<1>3. spent' \in Nat
  <2>1. /\ process.amount \in Nat /\ process.said \in Nat /\ process.said <= process.amount
        /\ spent \in Nat
    BY DEF UsageShape, Tallies
  <2>2. (process.amount + cost) - process.said \in Nat
    BY <2>1
  <2> QED  BY <1>1, <2>1, <2>2
<1>4. ASSUME NEW t \in Tally, NEW amount \in Nat
      PROVE  Sum(t, amount) \in Tally /\ TakeLast(t, amount) \in Tally /\ DetectPeak(t, amount) \in Tally
  BY <1>4 DEF Sum, TakeLast, DetectPeak, Drops, Tally
<1>5. extracted' \in Tally
  BY <1>1, <1>2, <1>4 DEF ExtractRunUsage, Tallies
<1>6. listed' \in Tally
  BY <1>1, <1>2, <1>4 DEF ScanRun, Tallies
<1> QED  BY <1>1, <1>2, <1>3, <1>5, <1>6 DEF Tallies

(* The report of a Claude process, and what the peak makes of it. *)
LEMMA PeakOfReport ==
  ASSUME UsageShape, Tallies, Peaks, NEW cost \in Nat, Result(cost)
  PROVE  Peaks'
<1> SUFFICES ASSUME kind' = "claude" PROVE Peaks'
  BY DEF Peaks
<1> DEFINE amount == process.amount + cost
           said == process.said
           t == extracted
<1>1. /\ kind = "claude" /\ kind' = kind /\ ~PerTurn /\ Said(cost) = amount
      /\ spent' = spent + (amount - said)
      /\ process'.said = amount
      /\ extracted' = DetectPeak(t, amount)
      /\ hidden' = (hidden \/ Unseen(amount))
  BY TallySteps DEF PerTurn, ExtractRunUsage, UsageShape
<1>2. /\ t.previous \in Nat /\ t.peak \in Nat /\ t.total \in Nat /\ spent \in Nat
      /\ said \in Nat /\ amount \in Nat /\ said <= amount
  <2>1. t.previous \in Nat /\ t.peak \in Nat /\ t.total \in Nat /\ spent \in Nat
    BY DEF Tallies, Tally
  <2>2. said \in Nat /\ amount \in Nat /\ said <= amount
    <3>1. process.amount \in Nat /\ process.said \in Nat /\ process.said <= process.amount
      BY DEF UsageShape
    <3> QED  BY <3>1
  <2> QED  BY <2>1, <2>2
<1>3. /\ t.previous <= t.peak /\ (t.previous = 0 => t.peak = 0)
      /\ said > 0 => t.previous = said
      /\ t.total + t.peak <= spent /\ t.total + said <= spent
      /\ ~hidden => t.total + t.peak = spent /\ (said > 0 => t.peak = said)
  BY <1>1 DEF Peaks, Shown
<1>4. /\ Drops(t, amount) =>
           extracted'.total = t.total + t.peak /\ extracted'.peak = amount
      /\ ~Drops(t, amount) =>
           extracted'.total = t.total /\ extracted'.peak = IF amount > t.peak THEN amount ELSE t.peak
      /\ extracted'.previous = amount
  BY <1>1, <1>2 DEF DetectPeak
<1>5. Drops(t, amount) => said = 0
  BY <1>2, <1>3 DEF Drops
<1>6. ~hidden' => ~hidden /\ (said > 0 \/ amount = 0 \/ t.previous = 0 \/ Drops(t, amount))
  <2>1. ~hidden' => ~hidden /\ ~Unseen(amount)
    BY <1>1, Zenon
  <2>2. ~Unseen(amount) => said > 0 \/ amount = 0 \/ t.previous = 0 \/ Drops(t, amount)
    BY <1>2 DEF Unseen
  <2> QED  BY <2>1, <2>2, Zenon
<1>7. /\ extracted'.previous <= extracted'.peak
      /\ extracted'.previous = 0 => extracted'.peak = 0
  BY <1>2, <1>3, <1>4 DEF Drops
<1>8. /\ extracted'.total + extracted'.peak <= spent'
      /\ extracted'.total + amount <= spent'
  <2>1. CASE Drops(t, amount)
    BY <1>1, <1>2, <1>3, <1>4, <1>5, <2>1
  <2>2. CASE ~Drops(t, amount)
    BY <1>1, <1>2, <1>3, <1>4, <2>2
  <2> QED  BY <2>1, <2>2
<1>9. ~hidden' => /\ extracted'.total + extracted'.peak = spent'
                  /\ amount > 0 => extracted'.peak = amount
  <2> SUFFICES ASSUME ~hidden'
               PROVE  /\ extracted'.total + extracted'.peak = spent'
                      /\ amount > 0 => extracted'.peak = amount
    OBVIOUS
  <2>1. CASE Drops(t, amount)
    BY <1>1, <1>2, <1>3, <1>4, <1>5, <1>6, <2>1
  <2>2. CASE ~Drops(t, amount) /\ said > 0
    BY <1>1, <1>2, <1>3, <1>4, <1>6, <2>2
  <2>3. CASE ~Drops(t, amount) /\ said = 0
    <3>1. t.previous = 0
      BY <1>2, <1>6, <2>3 DEF Drops
    <3> QED  BY <1>1, <1>2, <1>3, <1>4, <1>6, <2>3, <3>1
  <2> QED  BY <1>2, <2>1, <2>2, <2>3
<1> HIDE DEF amount, said, t
<1> QED  BY <1>1, <1>4, <1>7, <1>8, <1>9 DEF Peaks, Shown

(* Every step keeps what the tallies say; only a report changes them. *)
LEMMA TalliesStep ==
  ASSUME UsageShape, Tallies, Peaks, Sums, ListedAlike, [Next]_vars
  PROVE  Tallies' /\ Peaks' /\ Sums' /\ ListedAlike'
<1>1. ASSUME NEW cost \in Amounts, Result(cost) PROVE Tallies' /\ Peaks' /\ Sums' /\ ListedAlike'
  <2>0. cost \in Nat
    BY UsageAssumption
  <2>1. Tallies'
    BY <1>1, <2>0, TallySteps
  <2>2. Peaks'
    BY <1>1, <2>0, PeakOfReport
  <2>3. Sums'
    <3> SUFFICES ASSUME PerTurn' PROVE extracted'.peak = 0 /\ extracted'.total = spent'
      BY DEF Sums
    <3>1. PerTurn /\ kind # "claude"
      BY <1>1, <2>0, TallySteps DEF PerTurn
    <3>2. extracted' = Sum(extracted, cost) /\ spent' = spent + cost
      BY <1>1, <2>0, <3>1, TallySteps DEF ExtractRunUsage
    <3> QED  BY <2>0, <3>1, <3>2 DEF Sums, Sum, Tallies, Tally
  <2>4. ListedAlike'
    <3> SUFFICES ASSUME kind' \in {"claude", "imported"} PROVE listed' = extracted'
      BY DEF ListedAlike
    <3>1. /\ kind \in {"claude", "imported"} /\ listed = extracted
          /\ extracted' = ExtractRunUsage(extracted, Said(cost)) /\ listed' = ScanRun(listed, Said(cost))
      BY <1>1, <2>0, TallySteps DEF ListedAlike
    <3> QED  BY <3>1 DEF ExtractRunUsage, ScanRun
  <2> QED  BY <2>1, <2>2, <2>3, <2>4
<1>2. ASSUME UNCHANGED <<kind, spent, hidden, extracted, listed>>,
             process'.said = process.said \/ process'.said = 0
      PROVE  Tallies' /\ Peaks' /\ Sums' /\ ListedAlike'
  <2>1. Tallies' /\ Sums' /\ ListedAlike'
    <3>1. Tallies'
      BY <1>2 DEF Tallies
    <3>2. Sums'
      BY <1>2 DEF Sums, PerTurn
    <3>3. kind' = kind /\ listed' = listed /\ extracted' = extracted
      BY <1>2
    <3>4. ListedAlike'
      BY <3>3, Zenon DEF ListedAlike
    <3> QED  BY <3>1, <3>2, <3>4
  <2>2. Peaks'
    <3>1. /\ kind' = kind /\ spent' = spent /\ hidden' = hidden /\ extracted' = extracted
          /\ spent \in Nat /\ extracted.total \in Nat /\ extracted.peak \in Nat
      BY <1>2 DEF Tallies, Tally
    <3>2. CASE process'.said = process.said
      BY <3>1, <3>2 DEF Peaks, Shown
    <3>3. CASE process'.said = 0
      BY <3>1, <3>3 DEF Peaks, Shown
    <3> QED  BY <1>2, <3>2, <3>3
  <2> QED  BY <2>1, <2>2
<1>3. ASSUME NEW isNew \in BOOLEAN, Start(isNew) PROVE process'.said = process.said \/ process'.said = 0
  BY <1>3 DEF Start, Begun, NoProcess, UsageShape
<1>4. ASSUME NEW cost \in Amounts, GiveUp(cost) PROVE process'.said = process.said
  BY <1>4 DEF GiveUp, UsageShape
<1>5. ASSUME Ends PROVE process'.said = process.said
  BY <1>5 DEF Ends, UsageShape
<1>6. CASE \E isNew \in BOOLEAN : Start(isNew)
  BY <1>2, <1>3, <1>6 DEF Start, log
<1>7. CASE Send \/ StartUserTurn \/ StartRalphTurn \/ UNCHANGED vars
  BY <1>2, <1>7 DEF Send, StartUserTurn, StartRalphTurn, vars, log
<1>8. CASE \E cost \in Amounts : GiveUp(cost)
  BY <1>2, <1>4, <1>8 DEF GiveUp, log
<1>9. CASE Ends
  BY <1>2, <1>5, <1>9 DEF Ends, log
<1> QED  BY <1>1, <1>6, <1>7, <1>8, <1>9 DEF Next

(* Every step keeps the numbers of the turns. *)
LEMMA TurnsStep ==
  ASSUME UsageShape, Turns, TurnsApart, [Next]_vars
  PROVE  Turns' /\ TurnsApart'
<1> USE DEF log, Numbered
<1>0. Numbered' => Numbered
  BY DEF Next, Start, Send, StartUserTurn, StartRalphTurn, Result, GiveUp, Ends, vars, UsageShape
<1> SUFFICES ASSUME Numbered' PROVE Turns' /\ TurnsApart'
  BY DEF Turns, TurnsApart
<1>a. /\ process.alive => next = messages + Len(queue) + 1
      /\ \A i \in DOMAIN queue : queue[i] = messages + i
      /\ active # NoTurn => active = messages
      /\ \A i \in DOMAIN indexes :
           indexes[i] <= messages /\ (active # NoTurn => indexes[i] < messages)
      /\ \A i, j \in DOMAIN indexes : i < j => indexes[i] < indexes[j]
  BY <1>0 DEF Turns, TurnsApart
<1>b. /\ messages \in Nat /\ next \in Nat /\ active \in Nat /\ queue \in Seq(Nat \ {NoTurn})
      /\ indexes \in Seq(Nat \ {NoTurn}) /\ (~process.alive => active = NoTurn /\ queue = <<>>)
      /\ process \in [alive : BOOLEAN, amount : Nat, said : Nat]
  BY DEF UsageShape
<1>1. ASSUME NEW isNew \in BOOLEAN, Start(isNew) PROVE Turns' /\ TurnsApart'
  <2>1. /\ UNCHANGED <<messages, indexes, queue, active>> /\ active = NoTurn /\ queue = <<>>
        /\ next' = messages + 1
    BY <1>1, <1>b DEF Start, InitialTurnIndex
  <2> QED  BY <1>a, <1>b, <2>1 DEF Turns, TurnsApart
<1>2. ASSUME Send PROVE Turns' /\ TurnsApart'
  <2>1. /\ UNCHANGED <<messages, indexes, active>> /\ next' = messages + Len(queue') + 1
        /\ Len(queue') = Len(queue) + 1
    BY <1>2, <1>a, <1>b DEF Send
  <2>2. ASSUME NEW i \in DOMAIN queue' PROVE queue'[i] = messages + i
    <3>1. CASE i = Len(queue) + 1
      BY <1>2, <1>a, <1>b, <3>1 DEF Send
    <3>2. CASE i # Len(queue) + 1
      BY <1>2, <1>a, <1>b, <2>1, <3>2 DEF Send
    <3> QED  BY <3>1, <3>2
  <2> QED  BY <1>a, <1>b, <2>1, <2>2 DEF Turns, TurnsApart
<1>3. ASSUME StartUserTurn PROVE Turns' /\ TurnsApart'
  <2>1. /\ UNCHANGED <<indexes, next, process>> /\ messages' = messages + 1 /\ active = NoTurn
        /\ active' = messages + 1 /\ queue' = Tail(queue) /\ Len(queue') = Len(queue) - 1
        /\ queue # <<>> /\ process.alive
    BY <1>3, <1>a, <1>b DEF StartUserTurn
  <2>2. ASSUME NEW i \in DOMAIN queue' PROVE queue'[i] = messages' + i
    <3>1. i \in 1..Len(queue) - 1 /\ i + 1 \in DOMAIN queue
      BY <1>b, <2>1
    <3>2. queue'[i] = queue[i + 1]
      BY <1>b, <2>1, <3>1
    <3>3. queue[i + 1] = messages + (i + 1)
      BY <1>a, <3>1
    <3> QED  BY <1>b, <2>1, <3>1, <3>2, <3>3
  <2>3. \A i \in DOMAIN indexes' : indexes'[i] < messages'
    BY <1>a, <1>b, <2>1
  <2>4. next' = messages' + Len(queue') + 1
    BY <1>a, <1>b, <2>1
  <2> QED  BY <1>a, <1>b, <2>1, <2>2, <2>3, <2>4 DEF Turns, TurnsApart
<1>4. ASSUME StartRalphTurn PROVE Turns' /\ TurnsApart'
  <2>1. /\ UNCHANGED <<indexes, process, queue>> /\ messages' = messages + 1 /\ active = NoTurn
        /\ active' = messages + 1 /\ queue = <<>> /\ next' = messages + 2
    BY <1>4, <1>a, <1>b DEF StartRalphTurn
  <2>2. \A i \in DOMAIN indexes' : indexes'[i] < messages'
    BY <1>a, <1>b, <2>1
  <2> QED  BY <1>a, <1>b, <2>1, <2>2 DEF Turns, TurnsApart
<1>5. ASSUME NEW cost \in Amounts, Result(cost) PROVE Turns' /\ TurnsApart'
  <2>1. /\ UNCHANGED <<messages, next, queue>> /\ active # NoTurn /\ active' = NoTurn
        /\ process.alive /\ process'.alive = process.alive
        /\ indexes' = Append(indexes, messages)
    BY <1>5, <1>0, <1>a, <1>b DEF Result, Index
  <2>2. Len(indexes') = Len(indexes) + 1 /\ indexes' \in Seq(Nat)
    BY <1>b, <2>1
  <2>3. \A i \in DOMAIN indexes' : i # Len(indexes) + 1 => i \in DOMAIN indexes /\ indexes'[i] = indexes[i]
    <3>1. indexes \in Seq(Nat) /\ messages \in Nat /\ indexes' = Append(indexes, messages)
      BY <1>b, <2>1
    <3>2. DOMAIN indexes' = 1..Len(indexes) + 1 /\ DOMAIN indexes = 1..Len(indexes)
      BY <2>2, <3>1, LenProperties
    <3>3. \A i \in 1..Len(indexes) : indexes'[i] = indexes[i]
      BY <3>1, AppendProperties
    <3>4. Len(indexes) \in Nat
      BY <3>1, LenProperties
    <3> QED  BY <3>2, <3>3, <3>4
  <2>4. indexes'[Len(indexes) + 1] = messages
    BY <1>b, <2>1
  <2>5. \A i \in DOMAIN indexes' : indexes'[i] <= messages
    BY <1>a, <1>b, <2>1, <2>3, <2>4
  <2>6. ASSUME NEW i \in DOMAIN indexes', NEW j \in DOMAIN indexes', i < j
        PROVE  indexes'[i] < indexes'[j]
    <3>1. i \in DOMAIN indexes /\ indexes'[i] = indexes[i]
      BY <1>b, <2>2, <2>3, <2>6
    <3>2. CASE j = Len(indexes) + 1
      BY <1>a, <1>b, <2>1, <2>4, <3>1, <3>2
    <3>3. CASE j # Len(indexes) + 1
      BY <1>a, <1>b, <2>3, <2>6, <3>1, <3>3
    <3> QED  BY <3>2, <3>3
  <2> QED  BY <1>a, <2>1, <2>5, <2>6 DEF Turns, TurnsApart
<1>6. ASSUME NEW cost \in Amounts, GiveUp(cost) PROVE Turns' /\ TurnsApart'
  <2>1. UNCHANGED <<messages, next, queue, indexes>> /\ active' = NoTurn /\ process'.alive = process.alive
    BY <1>6, <1>b DEF GiveUp
  <2> QED  BY <1>a, <2>1 DEF Turns, TurnsApart
<1>7. ASSUME Ends PROVE Turns' /\ TurnsApart'
  <2>1. UNCHANGED <<messages, indexes>> /\ active' = NoTurn /\ queue' = <<>> /\ ~process'.alive
    BY <1>7, <1>b DEF Ends
  <2> QED  BY <1>a, <2>1 DEF Turns, TurnsApart
<1>8. ASSUME UNCHANGED vars PROVE Turns' /\ TurnsApart'
  BY <1>8, <1>a DEF vars, Turns, TurnsApart
<1> QED  BY <1>1, <1>2, <1>3, <1>4, <1>5, <1>6, <1>7, <1>8 DEF Next

(* Every step keeps the invariant. *)
LEMMA UsageStays == UsageInv /\ [Next]_vars => UsageInv'
BY ShapeSteps, TalliesStep, TurnsStep DEF UsageInv

(* The invariant says all that the run checks. *)
LEMMA UsageInvSuffices ==
    UsageInv => TypeOK /\ NeverOver /\ NothingLost /\ ListedAlike /\ TurnsApart
<1>1. UsageInv => TypeOK
  BY UsageAssumption DEF UsageInv, UsageShape, Tallies, TypeOK
<1>2. UsageInv => NeverOver
  BY DEF UsageInv, Peaks, Sums, PerTurn, NeverOver, Shown, Tallies, Tally
<1>3. UsageInv => NothingLost
  BY DEF UsageInv, Peaks, Sums, PerTurn, NothingLost, Shown, Tallies, Tally
<1> QED
  BY <1>1, <1>2, <1>3 DEF UsageInv

(* RunUsage is typed: turns are numbered from one, and no bound is passed. *)
THEOREM UsageTyped == Spec => []TypeOK
BY UsageStarts, UsageStays, UsageInvSuffices, PTL DEF Spec

-----------------------------------------------------------------------------
(* Long lines, for every line, every way the buffer cuts the log, and every *)
(* limit.  What has been read and what is left are together the log; the    *)
(* two passes keep no more open brackets than they may.                     *)

LinesAssumed == Lines!LimitsAssumption /\ Lines!LinesAssumption


Body(d) == Lines!LineBytes(d)
Log(d) == Body(d) \o <<Lines!Newline>> \o Lines!NextLine
Brace == "{"
Bytes(d) == Lines!Range(Body(d)) \cup {Lines!Newline, Brace}

(* The line after the one that is read. *)
LEMMA NextIsBrace == Lines!NextLine = <<Brace>>
BY Zenon DEF Lines!NextLine, Brace

(* The first newline of a sequence is found. *)
LEMMA FirstNewline ==
  ASSUME NEW S, NEW s \in Seq(S), NEW k \in 1..Len(s),
         s[k] = Lines!Newline, \A i \in 1..k - 1 : s[i] # Lines!Newline
  PROVE  Lines!SelectInSeq(s, LAMBDA b : b = Lines!Newline) = k
<1> DEFINE I == {i \in 1..Len(s) : s[i] = Lines!Newline}
<1>1. k \in I /\ \A i \in I : k <= i
  OBVIOUS
<1>2. Lines!Min(I) = k
  <2>1. \A x \in I : (\A y \in I : x <= y) => x = k
    BY <1>1
  <2> HIDE DEF I
  <2> QED  BY <1>1, <2>1 DEF Lines!Min
<1> QED  BY <1>1, <1>2 DEF Lines!SelectInSeq

(* What is cut from a sequence that has elements there. *)
LEMMA CutAt ==
  ASSUME NEW S, NEW s, NEW m \in Nat, NEW n \in Nat, m <= n, \A x \in m..n : s[x] \in S
  PROVE  /\ SubSeq(s, m, n) \in Seq(S) /\ Len(SubSeq(s, m, n)) = (n - m) + 1
         /\ \A x \in 1..(n - m) + 1 : SubSeq(s, m, n)[x] = s[m + (x - 1)]
<1>1. \A x \in 1..(n - m) + 1 : m + (x - 1) = (m + x) - 1
  OBVIOUS
<1> QED  BY <1>1, SubSeqProperties

(* What is cut from a cut. *)
LEMMA CutOfCut ==
  ASSUME NEW S, NEW s \in Seq(S), NEW i \in Nat \ {0}, NEW j \in Nat, j <= Len(s),
         NEW k \in Nat \ {0}, NEW l \in Nat, i + l <= j + 1,
         NEW first \in Nat, NEW last \in Nat, first = i + (k - 1), last = i + (l - 1)
  PROVE  SubSeq(SubSeq(s, i, j), k, l) = SubSeq(s, first, last)
<1> DEFINE cut == SubSeq(s, i, j)
<1>0. SubSeq(s, first, last) = SubSeq(s, i + (k - 1), i + (l - 1))
  OBVIOUS
<1>1. CASE l < k
  <2>1. SubSeq(cut, k, l) = <<>> /\ SubSeq(s, i + (k - 1), i + (l - 1)) = <<>>
    <3> HIDE DEF cut
    <3> QED  BY <1>1, SubSeqEmpty
  <2> QED  BY <2>1
<1>2. CASE k <= l
  <2>1. \A x \in i..j : s[x] \in S
    BY ElementOfSeq
  <2>2. \A x \in 1..(j - i) + 1 : cut[x] = s[i + (x - 1)]
    <3>1. i <= j /\ i \in Nat
      BY <1>2
    <3> QED  BY <2>1, <3>1, CutAt
  <2>3. \A x \in i + (k - 1)..i + (l - 1) : s[x] \in S
    <3>1. \A x \in i + (k - 1)..i + (l - 1) : x \in i..j
      BY <1>2
    <3> QED  BY <2>1, <3>1
  <2>4. /\ SubSeq(s, i + (k - 1), i + (l - 1)) \in Seq(S)
        /\ Len(SubSeq(s, i + (k - 1), i + (l - 1))) = (l - k) + 1
        /\ \A x \in 1..(l - k) + 1 : SubSeq(s, i + (k - 1), i + (l - 1))[x] = s[(i + (k - 1)) + (x - 1)]
    <3>1. /\ i + (k - 1) \in Nat /\ i + (l - 1) \in Nat /\ i + (k - 1) <= i + (l - 1)
          /\ (i + (l - 1)) - (i + (k - 1)) = l - k
      BY <1>2
    <3>2. /\ SubSeq(s, i + (k - 1), i + (l - 1)) \in Seq(S)
          /\ Len(SubSeq(s, i + (k - 1), i + (l - 1))) = ((i + (l - 1)) - (i + (k - 1))) + 1
          /\ \A x \in 1..((i + (l - 1)) - (i + (k - 1))) + 1 :
               SubSeq(s, i + (k - 1), i + (l - 1))[x] = s[(i + (k - 1)) + (x - 1)]
      BY <2>3, <3>1, CutAt
    <3> QED  BY <3>1, <3>2
  <2>5. \A x \in k..l : cut[x] = s[i + (x - 1)] /\ cut[x] \in S
    <3> HIDE DEF cut
    <3> SUFFICES ASSUME NEW x \in k..l PROVE cut[x] = s[i + (x - 1)] /\ cut[x] \in S
      OBVIOUS
    <3>1. x \in 1..(j - i) + 1 /\ i + (x - 1) \in i..j
      BY <1>2
    <3> QED  BY <2>1, <2>2, <3>1
  <2> HIDE DEF cut
  <2>6. /\ SubSeq(cut, k, l) \in Seq(S) /\ Len(SubSeq(cut, k, l)) = (l - k) + 1
        /\ \A x \in 1..(l - k) + 1 : SubSeq(cut, k, l)[x] = cut[k + (x - 1)]
    <3>1. \A x \in k..l : cut[x] \in S
      BY <2>5
    <3>2. k \in Nat /\ l \in Nat
      OBVIOUS
    <3> QED  BY <1>2, <3>1, <3>2, CutAt
  <2>7. \A x \in 1..(l - k) + 1 : cut[k + (x - 1)] = s[(i + (k - 1)) + (x - 1)]
    <3> SUFFICES ASSUME NEW x \in 1..(l - k) + 1
                 PROVE  cut[k + (x - 1)] = s[(i + (k - 1)) + (x - 1)]
      OBVIOUS
    <3>1. k + (x - 1) \in k..l /\ i + ((k + (x - 1)) - 1) = (i + (k - 1)) + (x - 1)
      BY <1>2
    <3> QED  BY <2>5, <3>1
  <2> QED  BY <2>4, <2>6, <2>7, SeqEqual DEF cut
<1> QED  BY <1>0, <1>1, <1>2

(* The log: the line, a newline, and the line after it. *)
LEMMA LogShape ==
  ASSUME LinesAssumed, NEW d \in Documents
  PROVE  /\ Body(d) \in Seq(Bytes(d)) /\ Log(d) \in Seq(Bytes(d))
         /\ Len(Log(d)) = Len(Body(d)) + 2 /\ Len(Body(d)) \in Nat
         /\ \A i \in 1..Len(Body(d)) : Log(d)[i] = Body(d)[i] /\ Log(d)[i] # Lines!Newline
         /\ Log(d)[Len(Body(d)) + 1] = Lines!Newline
         /\ SubSeq(Log(d), Len(Body(d)) + 2, Len(Body(d)) + 2) = Lines!NextLine
         /\ SubSeq(Log(d), 1, Len(Body(d))) = Body(d)
<1> DEFINE B == Body(d)
           S == Bytes(d)
           nl == <<Lines!Newline>>
<1>1. B \in Seq(Lines!Range(B) \ {Lines!Newline})
  BY DEF LinesAssumed, Lines!LinesAssumption, Body
<1>2. /\ B \in Seq(S) /\ Len(B) \in Nat /\ \A i \in 1..Len(B) : B[i] # Lines!Newline
  BY <1>1, SeqMonotonic, ElementOfSeq, LenProperties DEF Bytes
<1>3. /\ nl \in Seq(S) /\ Len(nl) = 1 /\ nl[1] = Lines!Newline
      /\ Lines!NextLine \in Seq(S) /\ Len(Lines!NextLine) = 1 /\ Lines!NextLine[1] = Brace
  BY NextIsBrace DEF Bytes
<1>4. /\ B \o nl \in Seq(S) /\ Len(B \o nl) = Len(B) + 1
      /\ \A i \in 1..Len(B) : (B \o nl)[i] = B[i]
      /\ (B \o nl)[Len(B) + 1] = Lines!Newline
  <2>1. /\ B \o nl \in Seq(S) /\ Len(B \o nl) = Len(B) + Len(nl)
        /\ \A i \in 1..Len(B) + Len(nl) : (B \o nl)[i] = IF i <= Len(B) THEN B[i] ELSE nl[i - Len(B)]
    BY <1>2, <1>3, ConcatProperties
  <2> HIDE DEF B, nl
  <2> QED  BY <1>2, <1>3, <2>1
<1>5. /\ Log(d) \in Seq(S) /\ Len(Log(d)) = Len(B) + 2
      /\ \A i \in 1..Len(B) + 1 : Log(d)[i] = (B \o nl)[i]
      /\ Log(d)[Len(B) + 2] = Brace
  <2>1. Log(d) = (B \o nl) \o Lines!NextLine
    BY DEF Log
  <2>2. /\ Log(d) \in Seq(S) /\ Len(Log(d)) = Len(B \o nl) + Len(Lines!NextLine)
        /\ \A i \in 1..Len(B \o nl) + Len(Lines!NextLine) :
             Log(d)[i] = IF i <= Len(B \o nl) THEN (B \o nl)[i] ELSE Lines!NextLine[i - Len(B \o nl)]
    <3> DEFINE P == B \o nl
    <3>1. P \in Seq(S)
      BY <1>4
    <3> HIDE DEF P, B, nl, S
    <3>2. /\ P \o Lines!NextLine \in Seq(S) /\ Len(P \o Lines!NextLine) = Len(P) + Len(Lines!NextLine)
          /\ \A i \in 1..Len(P) + Len(Lines!NextLine) :
               (P \o Lines!NextLine)[i] = IF i <= Len(P) THEN P[i] ELSE Lines!NextLine[i - Len(P)]
      BY <1>3, <3>1, ConcatProperties
    <3> QED  BY <2>1, <3>2 DEF P
  <2> HIDE DEF B, nl
  <2> QED  BY <1>2, <1>3, <1>4, <2>2
<1>6. SubSeq(Log(d), Len(B) + 2, Len(B) + 2) = Lines!NextLine
  <2>1. \A i \in Len(B) + 2..Len(B) + 2 : Log(d)[i] \in S
    BY <1>2, <1>5, ElementOfSeq
  <2>2. /\ SubSeq(Log(d), Len(B) + 2, Len(B) + 2) \in Seq(S)
        /\ Len(SubSeq(Log(d), Len(B) + 2, Len(B) + 2)) = 1
        /\ SubSeq(Log(d), Len(B) + 2, Len(B) + 2)[1] = Log(d)[Len(B) + 2]
    <3> HIDE DEF B, S
    <3> QED  BY <1>2, <2>1, SubSeqProperties
  <2> HIDE DEF B, S
  <2> QED  BY <1>3, <1>5, <2>2, SeqEqual
<1>7. SubSeq(Log(d), 1, Len(B)) = B
  <2>1. \A i \in 1..Len(B) : Log(d)[i] \in S
    BY <1>2, <1>5, ElementOfSeq
  <2>2. /\ SubSeq(Log(d), 1, Len(B)) \in Seq(S) /\ Len(SubSeq(Log(d), 1, Len(B))) = Len(B)
        /\ \A i \in 1..Len(B) : SubSeq(Log(d), 1, Len(B))[i] = Log(d)[i]
    <3> HIDE DEF B, S
    <3> QED  BY <1>2, <2>1, SubSeqProperties
  <2> HIDE DEF B, S
  <2> QED  BY <1>2, <1>4, <1>5, <2>2, SeqEqual
<1> QED  BY <1>2, <1>4, <1>5, <1>6, <1>7

(* A line is in the buffer or in the file. *)
Stores(S) == [inline : Seq(S), external : BOOLEAN, file : Seq(S)]
Placed(l) == (l.external => l.inline = <<>>) /\ (~l.external => l.file = <<>>)
Read(l) == l.inline \o l.file
Past(l) == l.external <=> Len(Read(l)) > ParseLimit

(* What is received is added to the line, which moves at the limit. *)
LEMMA ReceivedWhole ==
  ASSUME LinesAssumed, NEW S, NEW l \in Stores(S), Placed(l), Past(l), NEW data \in Seq(S)
  PROVE  LET m == Lines!Received(l, data)
         IN m \in Stores(S) /\ Placed(m) /\ Past(m) /\ Read(m) = Read(l) \o data
<1> DEFINE m == Lines!Received(l, data)
<1>0. ParseLimit \in Nat
  BY DEF LinesAssumed, Lines!LimitsAssumption
<1>1. /\ l.inline \in Seq(S) /\ l.file \in Seq(S) /\ l.external \in BOOLEAN
      /\ l = [inline |-> l.inline, external |-> l.external, file |-> l.file]
  BY DEF Stores
<1>2. CASE l.external
  <2>1. m = [l EXCEPT !.file = l.file \o data] /\ l.inline = <<>>
    BY <1>2 DEF Lines!Received, Placed
  <2>2. l.file \o data \in Seq(S) /\ Len(l.file \o data) = Len(l.file) + Len(data)
    BY <1>1, ConcatProperties
  <2>3. m.inline = <<>> /\ m.external /\ m.file = l.file \o data /\ m \in Stores(S)
    BY <1>1, <1>2, <2>1, <2>2 DEF Stores
  <2>4. Read(l) = l.file /\ Read(m) = l.file \o data
    BY <1>1, <2>1, <2>2, <2>3, ConcatEmptySeq DEF Read
  <2>5. Len(l.file) > ParseLimit
    BY <1>2, <2>4 DEF Past
  <2>6. Len(Read(m)) > ParseLimit
    BY <1>0, <1>1, <2>2, <2>4, <2>5, LenProperties
  <2> QED  BY <1>2, <2>3, <2>4, <2>6 DEF Placed, Past
<1>3. CASE ~l.external
  <2>1. l.file = <<>> /\ Read(l) = l.inline
    BY <1>1, <1>3, ConcatEmptySeq DEF Placed, Read
  <2>2. l.inline \o data \in Seq(S) /\ Len(l.inline \o data) = Len(l.inline) + Len(data)
    BY <1>1, ConcatProperties
  <2>3. CASE Len(l.inline) + Len(data) > ParseLimit
    <3>1. m = [inline |-> <<>>, external |-> TRUE, file |-> l.inline \o data]
      BY <1>3, <2>3 DEF Lines!Received
    <3>2. m \in Stores(S) /\ Placed(m) /\ m.external /\ Read(m) = l.inline \o data
      BY <2>2, <3>1, ConcatEmptySeq DEF Stores, Placed, Read
    <3> QED  BY <2>1, <2>2, <2>3, <3>2 DEF Past
  <2>4. CASE ~(Len(l.inline) + Len(data) > ParseLimit)
    <3>1. m = [l EXCEPT !.inline = l.inline \o data]
      BY <1>3, <2>4 DEF Lines!Received
    <3>2. m.inline = l.inline \o data /\ ~m.external /\ m.file = <<>> /\ m \in Stores(S)
      BY <1>1, <1>3, <2>1, <2>2, <3>1 DEF Stores
    <3>3. Placed(m) /\ Read(m) = l.inline \o data
      BY <2>2, <3>2, ConcatEmptySeq DEF Placed, Read
    <3> QED  BY <2>1, <2>2, <2>4, <3>2, <3>3 DEF Past
  <2> QED  BY <2>3, <2>4
<1> QED  BY <1>1, <1>2, <1>3

(* What is read and what is not are the log. *)
Split ==
  LET whole == Log(document)
      got == Len(Read(line))
  IN /\ got <= Len(Body(document))
     /\ Read(line) = SubSeq(whole, 1, got)
     /\ unread = SubSeq(whole, got + 1, Len(whole))

LineInv ==
  /\ document \in Documents
  /\ pass \in {"line", "parsed", "metadata", "extract"}
  /\ line \in Stores(Bytes(document)) /\ Placed(line) /\ Past(line)
  /\ pass = "line" => Split
  /\ pass # "line" => Read(line) = Body(document) /\ unread = Lines!NextLine

(* One chunk of the buffer. *)
LEMMA ChunkRead ==
  ASSUME LinesAssumed, LineInv, NEW n \in DOMAIN unread, Lines!ReadChunk(n)
  PROVE  LineInv'
<1> DEFINE S == Bytes(document)
           B == Body(document)
           whole == Log(document)
           len == Len(B)
           got == Len(Read(line))
           available == SubSeq(unread, 1, n)
           ends == Lines!Newline \in Lines!Range(available)
           data == IF ends
                   THEN SubSeq(available, 1,
                               Lines!SelectInSeq(available, LAMBDA b : b = Lines!Newline) - 1)
                   ELSE available
<1>1. /\ line' = Lines!Received(line, data)
      /\ unread' = SubSeq(unread, Len(data) + (IF ends THEN 2 ELSE 1), Len(unread))
      /\ pass' = IF ~ends THEN "line" ELSE IF line'.external THEN "metadata" ELSE "parsed"
      /\ document' = document /\ pass = "line"
  BY DEF Lines!ReadChunk
<1>2. /\ B \in Seq(S) /\ whole \in Seq(S) /\ Len(whole) = len + 2 /\ len \in Nat
      /\ \A i \in 1..len : whole[i] = B[i] /\ whole[i] # Lines!Newline
      /\ whole[len + 1] = Lines!Newline
      /\ SubSeq(whole, len + 2, len + 2) = Lines!NextLine /\ SubSeq(whole, 1, len) = B
  BY LogShape DEF LineInv
<1>3. /\ line \in Stores(S) /\ Placed(line) /\ Past(line) /\ Read(line) \in Seq(S)
      /\ got \in Nat /\ got <= len /\ Read(line) = SubSeq(whole, 1, got)
      /\ unread = SubSeq(whole, got + 1, len + 2)
  <2>1. Read(line) \in Seq(S)
    BY ConcatProperties DEF LineInv, Stores, Read
  <2> QED  BY <1>1, <1>2, <2>1, LenProperties DEF LineInv, Split
<1> HIDE DEF S, B, whole, len, got
<1>4. unread \in Seq(S) /\ Len(unread) = len + 2 - got /\ n \in 1..len + 2 - got
  <2>1. \A i \in got + 1..len + 2 : whole[i] \in S
    BY <1>2, <1>3, ElementOfSeq
  <2>2. unread \in Seq(S) /\ Len(unread) = len + 2 - got
    BY <1>2, <1>3, <2>1, SubSeqProperties
  <2> QED  BY <2>2, LenProperties
<1>n. /\ n \in Nat \ {0} /\ len \in Nat /\ got \in Nat /\ got <= len
      /\ n <= (len + 2) - got /\ Len(whole) = len + 2
  BY <1>2, <1>3, <1>4
<1>s. whole \in Seq(S)
  BY <1>2
<1>5. available = SubSeq(whole, got + 1, got + n)
  <2> DEFINE from == got + 1
             to == got + n
             end == len + 2
  <2>1. /\ from \in Nat \ {0} /\ n \in Nat /\ end \in Nat /\ end <= Len(whole) /\ from \in Nat
        /\ from + n <= end + 1 /\ to \in Nat /\ from = from + (1 - 1) /\ to = from + (n - 1)
    BY <1>n
  <2> HIDE DEF from, to, end
  <2>2. SubSeq(SubSeq(whole, from, end), 1, n) = SubSeq(whole, from, to)
    BY <1>s, <2>1, CutOfCut
  <2> QED  BY <1>3, <2>2 DEF from, to, end
<1>6. /\ available \in Seq(S) /\ Len(available) = n
      /\ \A i \in 1..n : available[i] = whole[got + i]
  <2>1. \A i \in got + 1..got + n : whole[i] \in S
    <3> SUFFICES ASSUME NEW i \in got + 1..got + n PROVE whole[i] \in S
      OBVIOUS
    <3>1. i \in 1..Len(whole)
      BY <1>n
    <3> QED  BY <1>s, <3>1, ElementOfSeq
  <2>2. got + 1 \in Nat /\ got + n \in Nat /\ got + 1 <= got + n /\ (got + n) - (got + 1) = n - 1
    BY <1>n
  <2>3. /\ available \in Seq(S) /\ Len(available) = ((got + n) - (got + 1)) + 1
        /\ \A i \in 1..((got + n) - (got + 1)) + 1 : available[i] = whole[(got + 1) + (i - 1)]
    <3> DEFINE from == got + 1
               to == got + n
    <3>1. from \in Nat /\ to \in Nat /\ from <= to /\ \A i \in from..to : whole[i] \in S
      BY <2>1, <2>2
    <3>2. available = SubSeq(whole, from, to)
      BY <1>5
    <3> HIDE DEF from, to
    <3>3. /\ available \in Seq(S) /\ Len(available) = (to - from) + 1
          /\ \A i \in 1..(to - from) + 1 : available[i] = whole[from + (i - 1)]
      <4> HIDE DEF available
      <4>1. /\ SubSeq(whole, from, to) \in Seq(S) /\ Len(SubSeq(whole, from, to)) = (to - from) + 1
            /\ \A i \in 1..(to - from) + 1 : SubSeq(whole, from, to)[i] = whole[from + (i - 1)]
        BY <3>1, CutAt
      <4> QED  BY <3>2, <4>1
    <3> QED  BY <3>3 DEF from, to
  <2>4. \A i \in 1..n : (got + 1) + (i - 1) = got + i
    BY <1>n
  <2> QED  BY <1>n, <2>2, <2>3, <2>4
<1> HIDE DEF available
<1>7. ends <=> got + n > len
  <2>1. ends <=> \E i \in 1..n : whole[got + i] = Lines!Newline
    BY <1>6, LenProperties DEF Lines!Range
  <2>2. ASSUME got + n > len PROVE \E i \in 1..n : whole[got + i] = Lines!Newline
    <3>1. len + 1 - got \in 1..n /\ got + (len + 1 - got) = len + 1
      BY <1>2, <1>3, <1>4, <2>2
    <3> QED  BY <1>2, <3>1
  <2>3. ASSUME ~(got + n > len), NEW i \in 1..n PROVE whole[got + i] # Lines!Newline
    <3>1. got + i \in 1..len
      BY <1>n, <2>3
    <3> QED  BY <1>2, <3>1
  <2> QED  BY <2>1, <2>2, <2>3
<1>8. data = SubSeq(whole, got + 1, IF ends THEN len ELSE got + n)
  <2>1. CASE ends
    <3>0. len + 1 - got \in 1..n /\ got + (len + 1 - got) = len + 1
      BY <1>n, <1>3, <1>7, <2>1
    <3>1. len + 1 - got \in 1..Len(available) /\ available[len + 1 - got] = Lines!Newline
      BY <1>2, <1>6, <3>0
    <3>2. \A i \in 1..(len + 1 - got) - 1 : available[i] # Lines!Newline
      BY <1>2, <1>3, <1>4, <1>6, <3>1
    <3>3. Lines!SelectInSeq(available, LAMBDA b : b = Lines!Newline) = len + 1 - got
      BY <1>6, <3>1, <3>2, FirstNewline
    <3>4. data = SubSeq(available, 1, len - got)
      <4>1. data = SubSeq(available, 1, Lines!SelectInSeq(available, LAMBDA b : b = Lines!Newline) - 1)
        BY <2>1
      <4>2. (len + 1 - got) - 1 = len - got
        BY <1>2, <1>3
      <4> QED  BY <3>3, <4>1, <4>2
    <3> HIDE DEF data, ends
    <3>5. CASE len = got
      <4>1. len - got = 0 /\ got + 1 > len
        BY <1>n, <3>5
      <4>2. SubSeq(available, 1, 0) = <<>>
        BY <1>6, SubSeqEmpty
      <4>3. SubSeq(whole, got + 1, len) = <<>>
        BY <1>n, <1>s, <4>1, SubSeqEmpty
      <4> QED  BY <2>1, <3>4, <4>1, <4>2, <4>3
    <3>6. CASE len # got
      <4> DEFINE from == got + 1
                 to == got + n
                 more == len - got
      <4>1. /\ from \in Nat \ {0} /\ from \in Nat /\ to \in Nat /\ to <= Len(whole) /\ more \in Nat
            /\ from + more <= to + 1 /\ len \in Nat /\ from = from + (1 - 1) /\ len = from + (more - 1)
        BY <1>n, <1>7, <2>1, <3>6
      <4> HIDE DEF from, to, more
      <4>2. SubSeq(SubSeq(whole, from, to), 1, more) = SubSeq(whole, from, len)
        BY <1>s, <4>1, CutOfCut
      <4> QED  BY <1>5, <2>1, <3>4, <4>2 DEF from, to, more
    <3> QED  BY <3>5, <3>6
  <2>2. CASE ~ends
    BY <1>5, <2>2
  <2> QED  BY <2>1, <2>2
<1> DEFINE now == IF ends THEN len ELSE got + n
<1>9. now \in Nat /\ got <= now /\ now <= len
  <2> HIDE DEF ends
  <2> QED  BY <1>n, <1>7
<1>10. data \in Seq(S) /\ Len(data) = now - got
  <2>1. \A i \in got + 1..now : whole[i] \in S
    <3> HIDE DEF now, ends
    <3> SUFFICES ASSUME NEW i \in got + 1..now PROVE whole[i] \in S
      OBVIOUS
    <3>1. i \in 1..Len(whole)
      BY <1>n, <1>9
    <3> QED  BY <1>s, <3>1, ElementOfSeq
  <2> HIDE DEF now, ends
  <2>2. SubSeq(whole, got + 1, now) \in Seq(S)
        /\ Len(SubSeq(whole, got + 1, now)) = IF got + 1 <= now THEN now - (got + 1) + 1 ELSE 0
    BY <1>3, <1>9, <2>1, SubSeqProperties
  <2> USE DEF now
  <2>3. data = SubSeq(whole, got + 1, now)
    BY <1>8
  <2> HIDE DEF now, data
  <2> QED  BY <1>3, <1>9, <2>2, <2>3
<1>11. data = SubSeq(whole, got + 1, now)
  BY <1>8
<1>12. unread' = SubSeq(unread, now - got + (IF ends THEN 2 ELSE 1), Len(unread))
  BY <1>1, <1>10
<1> HIDE DEF data
<1>13. line' \in Stores(S) /\ Placed(line') /\ Past(line') /\ Read(line') = Read(line) \o data
  BY <1>1, <1>3, <1>10, ReceivedWhole
<1>14. Read(line') = SubSeq(whole, 1, now)
  <2> HIDE DEF now
  <2>1. 1 \in 1..Len(whole) + 1 /\ got \in 1 - 1..Len(whole) /\ now \in got..Len(whole)
    BY <1>2, <1>3, <1>9
  <2>2. SubSeq(whole, 1, got) \o SubSeq(whole, got + 1, now) = SubSeq(whole, 1, now)
    BY <1>2, <2>1, ConcatAdjacentSubSeq
  <2> QED  BY <1>3, <1>11, <1>13, <2>2
<1>15. Len(Read(line')) = now
  <2> HIDE DEF now
  <2>1. \A i \in 1..now : whole[i] \in S
    BY <1>2, <1>9, ElementOfSeq
  <2> QED  BY <1>9, <1>14, <2>1, SubSeqProperties
<1>16. unread' = SubSeq(whole, now + (IF ends THEN 2 ELSE 1), len + 2)
  <2>0. (IF ends THEN 2 ELSE 1) \in {1, 2}
    OBVIOUS
  <2> DEFINE step == IF ends THEN 2 ELSE 1
  <2> HIDE DEF ends, now, step
  <2> DEFINE start == got + 1
             end == len + 2
             from == now - got + step
             rest == len + 2 - got
             behind == now + step
  <2>1. /\ start \in Nat \ {0} /\ end \in Nat /\ end <= Len(whole) /\ from \in Nat \ {0}
        /\ rest \in Nat /\ start + rest <= end + 1
        /\ behind \in Nat /\ behind = start + (from - 1) /\ end = start + (rest - 1)
    BY <1>n, <1>9, <2>0 DEF step
  <2>2. unread' = SubSeq(SubSeq(whole, start, end), from, rest)
    BY <1>3, <1>4, <1>12 DEF step
  <2> HIDE DEF start, end, from, rest, behind
  <2>3. SubSeq(SubSeq(whole, start, end), from, rest) = SubSeq(whole, behind, end)
    BY <1>s, <2>1, CutOfCut
  <2> QED  BY <2>2, <2>3 DEF behind, end, step
<1>17. CASE ends
  <2>1. Read(line') = B /\ unread' = Lines!NextLine
    BY <1>2, <1>14, <1>16, <1>17
  <2>2. pass' \in {"metadata", "parsed"}
    BY <1>1, <1>17
  <2> QED  BY <1>1, <1>13, <2>1, <2>2 DEF LineInv, S, B
<1>18. CASE ~ends
  <2>1. Len(Read(line')) <= len /\ Read(line') = SubSeq(whole, 1, Len(Read(line')))
        /\ unread' = SubSeq(whole, Len(Read(line')) + 1, Len(whole)) /\ pass' = "line"
    BY <1>1, <1>2, <1>9, <1>14, <1>15, <1>16, <1>18
  <2> QED  BY <1>1, <1>13, <2>1 DEF LineInv, Split, S, B, whole, len
<1> QED  BY <1>17, <1>18

(* Nothing is read at the beginning. *)
LEMMA LineStarts == ASSUME LinesAssumed, Lines!Init PROVE LineInv
<1>1. line = [inline |-> <<>>, external |-> FALSE, file |-> <<>>] /\ document \in Documents
      /\ pass = "line" /\ unread = Log(document)
  BY DEF Lines!Init, Lines!EmptyLine, Log, Body
<1>2. Read(line) = <<>> /\ Len(Read(line)) = 0
  BY <1>1, EmptySeq, ConcatEmptySeq DEF Read
<1>3. Log(document) \in Seq(Bytes(document)) /\ Len(Body(document)) \in Nat
  BY <1>1, LogShape
<1>4. SubSeq(Log(document), 1, 0) = <<>> /\ SubSeq(Log(document), 1, Len(Log(document))) = Log(document)
  BY <1>3, SubSeqEmpty, SubSeqFull
<1>5. Split
  BY <1>1, <1>2, <1>3, <1>4 DEF Split
<1>6. ParseLimit \in Nat
  BY DEF LinesAssumed, Lines!LimitsAssumption
<1>7. line \in Stores(Bytes(document)) /\ Placed(line) /\ Past(line)
  BY <1>1, <1>2, <1>6 DEF Stores, Placed, Past
<1> QED  BY <1>1, <1>5, <1>7 DEF LineInv

(* Every step keeps the invariant of the reading of a line. *)
LEMMA LineStays ==
    ASSUME LinesAssumed, LineInv, [Lines!Next]_Lines!vars PROVE LineInv'
<1>1. CASE \E n \in DOMAIN unread : Lines!ReadChunk(n)
  BY <1>1, ChunkRead
<1>2. ASSUME UNCHANGED <<document, unread, line>>,
             pass' = pass \/ (pass # "line" /\ pass' = "extract")
      PROVE  LineInv'
  BY <1>2 DEF LineInv, Split
<1>3. CASE Lines!ScanByte \/ Lines!StartSearch \/ Lines!SearchByte \/ UNCHANGED Lines!vars
  <2>1. UNCHANGED <<document, unread, line>>
    BY <1>3 DEF Lines!ScanByte, Lines!StartSearch, Lines!SearchByte, Lines!vars
  <2>2. CASE Lines!StartSearch
    BY <1>2, <2>1, <2>2 DEF Lines!StartSearch
  <2>3. CASE Lines!ScanByte \/ Lines!SearchByte \/ UNCHANGED Lines!vars
    <3>1. pass' = pass
      BY <2>3 DEF Lines!ScanByte, Lines!SearchByte, Lines!vars
    <3> QED  BY <2>1, <3>1 DEF LineInv, Split
  <2> QED  BY <1>3, <2>2, <2>3
<1> QED  BY <1>1, <1>3 DEF Lines!Next

-----------------------------------------------------------------------------
(* The behaviours of MCReading: of the chosen part the invariant holds, and  *)
(* of the others nothing is said.                                           *)
ReadingInv == (part = "usage" => UsageInv) /\ (part = "lines" => LineInv)

LEMMA ReadingStarts == ReadingInit => ReadingInv
BY ReadingAssumption, UsageStarts, LineStarts DEF ReadingInit, ReadingInv, LinesAssumed

LEMMA ReadingStays == ReadingInv /\ [ReadingNext]_allVars => ReadingInv'
<1> SUFFICES ASSUME ReadingInv, [ReadingNext]_allVars PROVE ReadingInv'
  OBVIOUS
<1>0. part' = part
  BY DEF ReadingNext, allVars
<1>1. ASSUME part = "usage" PROVE UsageInv'
  <2>1. [Next]_vars
    BY <1>1 DEF ReadingNext, allVars
  <2> QED
    BY <1>1, <2>1, UsageStays DEF ReadingInv
<1>2. ASSUME part = "lines" PROVE LineInv'
  <2>1. [Lines!Next]_Lines!vars
    BY <1>2 DEF ReadingNext, allVars, lineVars, Lines!vars
  <2> QED
    BY <1>2, <2>1, ReadingAssumption, LineStays DEF ReadingInv, LinesAssumed
<1> QED
  BY <1>0, <1>1, <1>2 DEF ReadingInv

(* What a run is shown to have cost was spent, no amount counted twice; it is *)
(* all that was spent, unless a process that cost at least nine tenths of    *)
(* the one before went unseen; the list of runs shows the same; and no two   *)
(* turns of a Claude run report under one index, whatever tickets a stop     *)
(* dropped and however often the run was resumed (extract_run_usage,         *)
(* scan_run, handle_send_message, start_session).                            *)
THEOREM UsageIsTrue == ReadingSpec => []UsageTrue
<1>1. ReadingInv => UsageTrue
  BY UsageInvSuffices DEF ReadingInv, UsageTrue
<1> QED
  BY <1>1, ReadingStarts, ReadingStays, PTL DEF ReadingSpec

(* However the buffer cuts the log, read_bounded_line reads the line whole   *)
(* and leaves the next one, and the line is in a file just when it is longer *)
(* than the limit.                                                          *)
THEOREM LineIsWhole == ReadingSpec => []LineWhole
<1>1. ReadingInv => LineWhole
  BY DEF ReadingInv, LineInv, LineWhole, Lines!LineWhole, Read, Past, Body
<1> QED
  BY <1>1, ReadingStarts, ReadingStays, PTL DEF ReadingSpec
=============================================================================
