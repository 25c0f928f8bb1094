--------------------------- MODULE EventLogProofs ---------------------------
(***************************************************************************)
(* Proofs about EventLog for every set of runs, writers, readers and       *)
(* events, every placement of long and oversized payloads, every map limit *)
(* and any number of faults and crashes.                                   *)
(***************************************************************************)
EXTENDS EventLog, SequenceTheorems, TLAPS

Holding == {"locked", "line", "newline", "copy"}
Appending == {"locked", "line", "newline"}
Forking == {"snapshot", "target", "copy"}

\* The fields of a call agree with the step it has reached.
CallShape == \A p \in Procs :
    /\ op[p].at \in {"handle", "snapshot"} \cup Holding => op[p].run \in Runs
    /\ op[p].at \in {"idle", "target"} => op[p].run = NoRun
    /\ op[p].at \in {"handle"} \cup Appending => op[p].ev \in Events
    /\ op[p].at \in Forking <=> op[p].to \in Runs
    /\ op[p].at = "copy" => op[p].run = op[p].to

\* A run's mutex belongs to the call that is past its lock() and not past its end.
LockHeld == \A p \in Procs, r \in Runs :
    holder[r] = p <=> op[p].at \in Holding /\ op[p].run = r

\* The collection of the map never takes an entry somebody has a handle on: two
\* calls on a run always meet at the same mutex.
Pinned == \A p \in Procs : op[p].run \in Runs => writer[op[p].run].present

\* Directories: a call runs on an existing run, and a fork belongs to one call
\* and stays empty until that call creates its file.
CallsOnCreated == \A p \in Procs :
    /\ op[p].run \in Runs => op[p].run \in created
    /\ op[p].to \in Runs => op[p].to \in created
ForkOwned == \A p, q \in Procs :
    op[p].to \in Runs /\ p # q => op[q].run # op[p].to /\ op[q].to # op[p].to
ForkEmpty == \A p \in Procs : op[p].at \in {"snapshot", "target"} =>
    op[p].run # op[p].to /\ log[op[p].to] = <<>> /\ tail[op[p].to].st = "none"
UnbornEmpty == \A r \in Runs \ created : log[r] = <<>> /\ tail[r].st = "none"
ForkPrivate == CallsOnCreated /\ ForkOwned /\ ForkEmpty /\ UnbornEmpty

\* The committed lines are numbered 1, 2, ..., and a whole tail comes next.
Dense == \A r \in Runs :
    /\ \A i \in 1 .. Len(log[r]) : log[r][i].seq = i
    /\ tail[r].st = "whole" => tail[r].seq = Len(log[r]) + 1 /\ tail[r].ev \in Events

\* An entry marked repaired, with nobody inside, describes the file.
SeedFits == \A r \in Runs : holder[r] = NoProc /\ writer[r].repaired =>
    tail[r].st = "none" /\ writer[r].next = Len(log[r]) + 1

\* So does the entry of a run somebody is inside of, up to the bytes written.
InsideFits == \A p \in Procs :
    /\ op[p].at \in Appending =>
        writer[op[p].run].repaired /\ writer[op[p].run].next = Len(log[op[p].run]) + 1
    /\ op[p].at \in {"locked", "copy"} => tail[op[p].run].st = "none"
    /\ op[p].at = "copy" => ~writer[op[p].run].repaired
    /\ op[p].at = "line" => tail[op[p].run].st = "torn"
    /\ op[p].at = "newline" =>
        tail[op[p].run].st = "whole" /\ tail[op[p].run].ev = op[p].ev

\* A read is of an existing run.
ReadShape == \A q \in Readers : rd[q].at = "reading" => rd[q].run \in Runs

\* The inductive invariant.
IInv == /\ TypeOK /\ CallShape /\ LockHeld /\ Pinned /\ ForkPrivate /\ Dense
        /\ SeedFits /\ InsideFits /\ ReadShape
        /\ AckedDurable /\ ShownDurable

-----------------------------------------------------------------------------
(* Sequences of lines.                                                      *)

\* Lines numbered 1, 2, ... without a gap.
Numbered(lines) == \A i \in 1 .. Len(lines) : lines[i].seq = i

\* The largest number among lines numbered 1, 2, ... is the last index.
LEMMA MaxSeqOfNumbered ==
    ASSUME NEW lines \in Seq(Line), Numbered(lines),
           NEW idx, idx \subseteq 1 .. Len(lines), Len(lines) \in idx
    PROVE  MaxSeq(lines, idx) = Len(lines)
<1> DEFINE S == {lines[i].seq : i \in idx}
<1>1. Len(lines) \in Nat
  OBVIOUS
<1>2. \A i \in idx : lines[i].seq = i /\ i <= Len(lines)
  BY <1>1 DEF Numbered
<1>3. Len(lines) \in S /\ \A i \in idx : lines[i].seq <= Len(lines)
  BY <1>2
<1>4. ASSUME NEW n \in S, \A i \in idx : lines[i].seq <= n
      PROVE  n = Len(lines)
  BY <1>1, <1>2, <1>3, <1>4
<1> QED
  BY <1>3, <1>4 DEF MaxSeq

\* next_seq, whichever way it scans, answers the number of lines plus one.
LEMMA NextSeqOfNumbered ==
    ASSUME NEW lines \in Seq(Line), Numbered(lines), NEW window \in {{}, Window(lines)}
    PROVE  NextSeqOf(lines, window) = Len(lines) + 1
<1>1. Len(lines) \in Nat /\ DOMAIN lines = 1 .. Len(lines)
  OBVIOUS
<1>2. CASE window # {}
  <2>1. window \subseteq 1 .. Len(lines)
    BY <1>1 DEF Window
  <2>2. Len(lines) \in window
    BY <1>1, <1>2 DEF Window
  <2> QED
    BY <1>2, <2>1, <2>2, MaxSeqOfNumbered DEF NextSeqOf
<1>3. CASE window = {} /\ lines # <<>>
  <2>1. Len(lines) \in DOMAIN lines
    BY <1>1, <1>3
  <2> QED
    BY <1>1, <1>3, <2>1, MaxSeqOfNumbered DEF NextSeqOf
<1>4. CASE window = {} /\ lines = <<>>
  BY <1>4 DEF NextSeqOf
<1> QED
  BY <1>2, <1>3, <1>4

\* What a parser can read of a file is its lines and, at most, one more.
LEMMA VisibleLines ==
    ASSUME TypeOK, Dense, NEW r \in Runs
    PROVE  /\ Visible(r) \in Seq(Line) /\ Numbered(Visible(r))
           /\ tail[r].st # "whole" => Visible(r) = log[r]
           /\ tail[r].st = "whole" =>
                /\ Len(Visible(r)) = Len(log[r]) + 1
                /\ Visible(r)[Len(log[r]) + 1] = [seq |-> tail[r].seq, ev |-> tail[r].ev]
           /\ \A i \in 1 .. Len(log[r]) : Visible(r)[i] = log[r][i]
<1>1. log[r] \in Seq(Line) /\ Len(log[r]) \in Nat /\ Numbered(log[r])
  BY DEF TypeOK, Dense, Numbered
<1>2. CASE tail[r].st # "whole"
  BY <1>1, <1>2 DEF Visible
<1>3. CASE tail[r].st = "whole"
  <2> DEFINE last == [seq |-> tail[r].seq, ev |-> tail[r].ev]
  <2>1. last \in Line /\ last.seq = Len(log[r]) + 1
    BY <1>3 DEF TypeOK, Dense, Line, TailBytes
  <2>2. Visible(r) = Append(log[r], last)
    BY <1>3 DEF Visible
  <2> QED
    BY <1>1, <1>3, <2>1, <2>2, AppendProperties DEF Numbered
<1> QED
  BY <1>2, <1>3

\* The number a repaired file gives its entry.
LEMMA SeedOfRepaired ==
    ASSUME TypeOK, Dense, NEW r \in Runs
    PROVE  /\ Len(Visible(r)) \in Nat
           /\ NextSeqOf(Visible(r), Window(Visible(r))) = Len(Visible(r)) + 1
           /\ [present |-> TRUE, next |-> NextSeqOf(Visible(r), Window(Visible(r))),
               repaired |-> TRUE] \in Entries
<1>1. Visible(r) \in Seq(Line) /\ Numbered(Visible(r))
  BY VisibleLines
<1>2. NextSeqOf(Visible(r), Window(Visible(r))) = Len(Visible(r)) + 1
  BY <1>1, NextSeqOfNumbered
<1>3. Len(Visible(r)) \in Nat
  BY <1>1
<1> QED
  BY <1>2, <1>3 DEF Entries

\* The map after run_lock is a map that holds r's entry, and every entry that was
\* there is unchanged or was referenced by nobody.
LEMMA RunLockMap ==
    ASSUME TypeOK, Dense, NEW r \in Runs
    PROVE  /\ RunLock(r) \in [Runs -> Entries]
           /\ RunLock(r)[r].present
           /\ \A x \in Runs : RunLock(r)[x].repaired => RunLock(r)[x] = writer[x]
           /\ \A x \in Runs : Referenced(x) /\ writer[x].present => RunLock(r)[x] = writer[x]
<1>1. NextSeq(r) \in Nat
  <2>1. Visible(r) \in Seq(Line) /\ Numbered(Visible(r))
    BY VisibleLines
  <2>2. NextSeq(r) = Len(Visible(r)) + 1
    BY <2>1, NextSeqOfNumbered DEF NextSeq
  <2> QED
    BY <2>1, <2>2
<1>2. Absent \in Entries
  BY DEF Absent, Entries
<1>3. \A x \in Runs : writer[x] \in Entries
  BY DEF TypeOK
<1> QED
  BY <1>1, <1>2, <1>3 DEF RunLock, Absent, Entries

-----------------------------------------------------------------------------
(* Type correctness.                                                        *)

LEMMA IdleType == Idle \in Calls
BY DEF Idle, Call, Calls

\* A call that moves to another step, run or rest stays a call.
Steps == {"idle", "handle", "locked", "line", "newline", "snapshot", "target", "copy"}

LEMMA CallMoves ==
    ASSUME TypeOK, NEW p \in Procs
    PROVE  /\ \A at \in Steps : [op EXCEPT ![p].at = at] \in [Procs -> Calls]
           /\ \A at \in Steps, r \in Runs \cup {NoRun} :
                [op EXCEPT ![p].at = at, ![p].run = r] \in [Procs -> Calls]
           /\ \A at \in Steps, r \in Runs \cup {NoRun}, rest \in Seq(Line) :
                [op EXCEPT ![p].at = at, ![p].run = r, ![p].rest = rest] \in [Procs -> Calls]
           /\ \A rest \in Seq(Line) : [op EXCEPT ![p].rest = rest] \in [Procs -> Calls]
<1> SUFFICES ASSUME NEW at \in Steps, NEW r \in Runs \cup {NoRun}, NEW rest \in Seq(Line)
    PROVE  /\ [op EXCEPT ![p].at = at] \in [Procs -> Calls]
           /\ [op EXCEPT ![p].at = at, ![p].run = r] \in [Procs -> Calls]
           /\ [op EXCEPT ![p].at = at, ![p].run = r, ![p].rest = rest] \in [Procs -> Calls]
           /\ [op EXCEPT ![p].rest = rest] \in [Procs -> Calls]
  <2>1. "idle" \in Steps /\ NoRun \in Runs \cup {NoRun}
    BY DEF Steps
  <2>2. <<>> \in Seq(Line)
    BY EmptySeq
  <2> QED
    BY <2>1, <2>2
<1>1. op \in [Procs -> Calls]
  BY DEF TypeOK
<1>2. op[p] \in Calls
  BY <1>1
<1>3. [op[p] EXCEPT !.at = at] \in Calls
  BY <1>2 DEF Calls, Steps
<1>4. [op[p] EXCEPT !.at = at, !.run = r] \in Calls
  BY <1>2 DEF Calls, Steps
<1>5. [op[p] EXCEPT !.at = at, !.run = r, !.rest = rest] \in Calls
  BY <1>2 DEF Calls, Steps
<1>6. [op[p] EXCEPT !.rest = rest] \in Calls
  BY <1>2 DEF Calls, Steps
<1> QED
  BY <1>1, <1>3, <1>4, <1>5, <1>6

LEMMA NoTailType == NoTail \in TailBytes
BY DEF NoTail, TailBytes

\* Releasing a mutex leaves well-typed calls and holders.
LEMMA ReleaseType ==
    ASSUME TypeOK, NEW p \in Procs, NEW r, Release(p, r)
    PROVE  op' \in [Procs -> Calls] /\ holder' \in [Runs -> Procs \cup {NoProc}]
BY IdleType DEF TypeOK, Release

\* Where a call that appends stands.
LEMMA AppendingCall ==
    ASSUME CallShape, NEW p \in Procs, op[p].at \in Appending
    PROVE  op[p].run \in Runs /\ op[p].ev \in Events /\ op[p].to \notin Runs
BY DEF CallShape, Appending, Holding, Forking

LEMMA TypeOfBeginWrite ==
    ASSUME IInv, NEW p \in Procs, NEW r \in Runs, NEW e \in Events, BeginWrite(p, r, e)
    PROVE  TypeOK'
<1>1. op' \in [Procs -> Calls]
  <2>1. Call("handle", r, e, NoRun) \in Calls
    BY DEF Calls, Call
  <2> QED
    BY <2>1 DEF BeginWrite, IInv, TypeOK
<1>2. writer' \in [Runs -> Entries]
  BY RunLockMap DEF BeginWrite, IInv
<1> QED
  BY <1>1, <1>2 DEF BeginWrite, IInv, TypeOK

LEMMA TypeOfLockAndRepair ==
    ASSUME IInv, NEW p \in Procs, LockAndRepair(p)
    PROVE  TypeOK'
<1> DEFINE r == op[p].run
<1>1. r \in Runs
  BY DEF LockAndRepair, IInv, CallShape
<1>2. op' \in [Procs -> Calls]
  BY CallMoves DEF LockAndRepair, IInv, Steps
<1>3. log' \in [Runs -> Seq(Line)] /\ tail' \in [Runs -> TailBytes]
  BY <1>1, VisibleLines, NoTailType DEF LockAndRepair, Repair, IInv, TypeOK
<1>4. writer' \in [Runs -> Entries]
  BY <1>1, SeedOfRepaired DEF LockAndRepair, Reseeded, IInv, TypeOK
<1>5. holder' \in [Runs -> Procs \cup {NoProc}]
  BY DEF LockAndRepair, IInv, TypeOK
<1> QED
  BY <1>2, <1>3, <1>4, <1>5 DEF LockAndRepair, IInv, TypeOK

LEMMA TypeOfWriteFragment ==
    ASSUME IInv, NEW p \in Procs, WriteFragment(p)
    PROVE  TypeOK'
<1>1. op[p].run \in Runs /\ op[p].ev \in Events
  BY AppendingCall DEF WriteFragment, IInv, Appending
<1>2. [st |-> "torn", seq |-> writer[op[p].run].next, ev |-> op[p].ev] \in TailBytes
  BY <1>1 DEF IInv, TypeOK, TailBytes, Entries
<1>3. op' \in [Procs -> Calls]
  BY CallMoves DEF WriteFragment, IInv, Steps
<1> QED
  BY <1>2, <1>3 DEF WriteFragment, IInv, TypeOK

LEMMA TypeOfWriteLine ==
    ASSUME IInv, NEW p \in Procs, WriteLine(p)
    PROVE  TypeOK'
<1>1. op[p].run \in Runs /\ op[p].ev \in Events
  BY AppendingCall DEF WriteLine, IInv, Appending
<1>2. [st |-> "whole", seq |-> writer[op[p].run].next, ev |-> op[p].ev] \in TailBytes
  BY <1>1 DEF IInv, TypeOK, TailBytes, Entries
<1>3. op' \in [Procs -> Calls]
  BY CallMoves DEF WriteLine, IInv, Steps
<1> QED
  BY <1>2, <1>3 DEF WriteLine, IInv, TypeOK

LEMMA TypeOfWriteNewline ==
    ASSUME IInv, NEW p \in Procs, WriteNewline(p)
    PROVE  TypeOK'
<1>1. op[p].run \in Runs /\ op[p].ev \in Events
  BY AppendingCall DEF WriteNewline, IInv, Appending
<1>2. op' \in [Procs -> Calls] /\ holder' \in [Runs -> Procs \cup {NoProc}]
  BY ReleaseType DEF WriteNewline, IInv
<1>3. log' \in [Runs -> Seq(Line)] /\ tail' \in [Runs -> TailBytes]
  BY <1>1, VisibleLines, NoTailType DEF WriteNewline, IInv, TypeOK
<1>4. writer' \in [Runs -> Entries]
  <2>1. writer \in [Runs -> Entries]
    BY DEF IInv, TypeOK
  <2> QED
    BY <1>1, <2>1 DEF WriteNewline, Entries
<1>5. acked' \subseteq Runs \X Nat \X Events
  <2>1. writer[op[p].run].next \in Nat
    BY <1>1 DEF IInv, TypeOK, Entries
  <2> QED
    BY <1>1, <2>1 DEF WriteNewline, IInv, TypeOK
<1> QED
  BY <1>2, <1>3, <1>4, <1>5 DEF WriteNewline, IInv, TypeOK

LEMMA TypeOfFailures ==
    ASSUME IInv, NEW p \in Procs,
           WriteFails(p) \/ OpenFails(p) \/ \E torn \in BOOLEAN : CopyFails(p, torn)
    PROVE  TypeOK'
<1>1. op' \in [Procs -> Calls] /\ holder' \in [Runs -> Procs \cup {NoProc}]
  BY ReleaseType DEF WriteFails, OpenFails, CopyFails, IInv
<1>2. faults' \in 0 .. MaxFaults
  BY EventLogAssumption DEF WriteFails, OpenFails, CopyFails, IInv, TypeOK
<1>3. writer' \in [Runs -> Entries]
  <2>1. writer \in [Runs -> Entries]
    BY DEF IInv, TypeOK
  <2> QED
    BY <2>1 DEF WriteFails, OpenFails, CopyFails, Entries
<1>4. tail' \in [Runs -> TailBytes]
  <2>1. ASSUME NEW torn \in BOOLEAN, CopyFails(p, torn)
        PROVE  tail' \in [Runs -> TailBytes]
    <3>1. op[p].rest \in Seq(Line) /\ op[p].rest # <<>> /\ op[p].to \in Runs
      BY <2>1 DEF CopyFails, IInv, TypeOK, Calls, CallShape, Forking
    <3>2. Head(op[p].rest) \in Line /\ log[op[p].to] \in Seq(Line)
      BY <3>1, HeadTailProperties DEF IInv, TypeOK
    <3>3. [st |-> "torn", seq |-> Len(log[op[p].to]) + 1, ev |-> Head(op[p].rest).ev]
            \in TailBytes
      BY <3>2 DEF TailBytes, Line
    <3> QED
      BY <2>1, <3>3 DEF CopyFails, IInv, TypeOK
  <2> QED
    BY <2>1 DEF WriteFails, OpenFails, IInv, TypeOK
<1> QED
  BY <1>1, <1>2, <1>3, <1>4 DEF WriteFails, OpenFails, CopyFails, IInv, TypeOK

LEMMA TypeOfBeginFork ==
    ASSUME IInv, NEW p \in Procs, NEW r \in Runs, NEW t \in Runs, BeginFork(p, r, t)
    PROVE  TypeOK'
<1>1. op' \in [Procs -> Calls]
  <2>1. Call("snapshot", r, NoEvent, t) \in Calls
    BY DEF Calls, Call
  <2> QED
    BY <2>1 DEF BeginFork, IInv, TypeOK
<1>2. writer' \in [Runs -> Entries]
  BY RunLockMap DEF BeginFork, IInv
<1>3. owed' \in [Runs -> SUBSET Events]
  BY DEF BeginFork, IInv, TypeOK
<1> QED
  BY <1>1, <1>2, <1>3 DEF BeginFork, IInv, TypeOK

LEMMA TypeOfSnapshot ==
    ASSUME IInv, NEW p \in Procs, Snapshot(p)
    PROVE  TypeOK'
<1> DEFINE r == op[p].run
<1>1. r \in Runs
  BY DEF Snapshot, IInv, CallShape
<1>2. Visible(r) \in Seq(Line)
  BY <1>1, VisibleLines DEF IInv
<1>3. op' \in [Procs -> Calls]
  <2>1. op' = [op EXCEPT ![p].at = "target", ![p].run = NoRun, ![p].rest = Visible(r)]
    BY DEF Snapshot
  <2>2. "target" \in Steps /\ NoRun \in Runs \cup {NoRun}
    BY DEF Steps
  <2> HIDE DEF r
  <2> QED
    BY <1>2, <2>1, <2>2, CallMoves DEF IInv
<1>4. log' \in [Runs -> Seq(Line)] /\ tail' \in [Runs -> TailBytes]
  BY <1>1, <1>2, NoTailType DEF Snapshot, Repair, IInv, TypeOK
<1>5. writer' \in [Runs -> Entries]
  BY <1>1, SeedOfRepaired DEF Snapshot, Reseeded, IInv, TypeOK
<1> QED
  BY <1>3, <1>4, <1>5 DEF Snapshot, IInv, TypeOK

LEMMA TypeOfCreateTarget ==
    ASSUME IInv, NEW p \in Procs, CreateTarget(p)
    PROVE  TypeOK'
<1> DEFINE t == op[p].to
<1>1. t \in Runs
  BY DEF CreateTarget, IInv, CallShape, Forking
<1>2. op' \in [Procs -> Calls]
  BY <1>1, CallMoves DEF CreateTarget, IInv, Steps
<1>3. log' \in [Runs -> Seq(Line)] /\ tail' \in [Runs -> TailBytes]
  <2>1. <<>> \in Seq(Line)
    OBVIOUS
  <2> QED
    BY <2>1, NoTailType DEF CreateTarget, IInv, TypeOK
<1>4. writer' \in [Runs -> Entries]
  <2>1. RunLock(t) \in [Runs -> Entries]
    BY <1>1, RunLockMap DEF IInv
  <2> QED
    BY <1>1, <2>1 DEF CreateTarget, Entries
<1> QED
  BY <1>2, <1>3, <1>4 DEF CreateTarget, IInv, TypeOK

LEMMA TypeOfCopyLine ==
    ASSUME IInv, NEW p \in Procs, CopyLine(p)
    PROVE  TypeOK'
<1> DEFINE t == op[p].to
           line == [seq |-> Len(log[t]) + 1, ev |-> Head(op[p].rest).ev]
<1>1. op[p].rest \in Seq(Line) /\ op[p].rest # <<>> /\ t \in Runs
  BY DEF CopyLine, IInv, TypeOK, Calls, CallShape, Forking
<1>2. line \in Line /\ Tail(op[p].rest) \in Seq(Line)
  <2>1. Head(op[p].rest) \in Line /\ log[t] \in Seq(Line)
    BY <1>1, HeadTailProperties DEF IInv, TypeOK
  <2>2. line \in Line
    BY <2>1 DEF Line
  <2> QED
    BY <1>1, <2>2, HeadTailProperties
<1>3. op' \in [Procs -> Calls]
  BY <1>2, CallMoves DEF CopyLine, IInv, Steps
<1>4. log' \in [Runs -> Seq(Line)]
  <2>1. Append(log[t], line) \in Seq(Line)
    BY <1>1, <1>2 DEF IInv, TypeOK
  <2>2. log' = log \/ log' = [log EXCEPT ![t] = Append(log[t], line)]
    BY <1>1 DEF CopyLine, IInv, TypeOK
  <2> QED
    BY <2>1, <2>2 DEF IInv, TypeOK
<1> QED
  BY <1>3, <1>4 DEF CopyLine, IInv, TypeOK

LEMMA TypeOfEndCopy ==
    ASSUME IInv, NEW p \in Procs, EndCopy(p)
    PROVE  TypeOK'
<1> DEFINE t == op[p].to
<1>1. t \in Runs /\ Len(log[t]) \in Nat
  BY DEF EndCopy, IInv, TypeOK, CallShape, Forking
<1>2. [present |-> TRUE, next |-> Len(log[t]) + 1, repaired |-> TRUE] \in Entries
  BY <1>1 DEF Entries
<1>3. op' \in [Procs -> Calls] /\ holder' \in [Runs -> Procs \cup {NoProc}]
  BY ReleaseType DEF EndCopy, IInv
<1>4. writer' \in [Runs -> Entries]
  BY <1>2 DEF EndCopy, IInv, TypeOK
<1> QED
  BY <1>1, <1>3, <1>4 DEF EndCopy, IInv, TypeOK

\* What a reader returns is a numbered event of an existing run.
LEMMA TypeOfReader ==
    ASSUME IInv, NEW q \in Readers, ReaderNext(q)
    PROVE  TypeOK'
<1> DEFINE r == rd[q].run
<1>1. rd \in [Readers -> Reads] /\ rd[q] \in Reads
  BY DEF IInv, TypeOK
<1>moved. /\ [rd[q] EXCEPT !.pos = rd[q].pos + 1, !.garbled = FALSE] \in Reads
       /\ [rd[q] EXCEPT !.pos = rd[q].pos + 1] \in Reads
       /\ \A n \in Nat :
            [rd[q] EXCEPT !.pos = rd[q].pos + 1, !.got = rd[q].got \cup {n}] \in Reads
  <2>1. rd[q].pos \in Nat /\ rd[q].got \subseteq Nat
    BY <1>1 DEF Reads
  <2>2. rd[q].pos + 1 \in Nat /\ \A n \in Nat : rd[q].got \cup {n} \in SUBSET Nat
    BY <2>1
  <2>3. rd[q] \in Reads
    BY <1>1
  <2>4. \A m \in Nat, b \in BOOLEAN : [rd[q] EXCEPT !.pos = m, !.garbled = b] \in Reads
    BY <2>3 DEF Reads
  <2>5. \A m \in Nat, g \in SUBSET Nat : [rd[q] EXCEPT !.pos = m, !.got = g] \in Reads
    BY <2>3 DEF Reads
  <2>6. \A m \in Nat : [rd[q] EXCEPT !.pos = m] \in Reads
    BY <2>3 DEF Reads
  <2> QED
    BY <2>2, <2>4, <2>5, <2>6
<1>2. NotReading \in Reads
  BY DEF NotReading, Reads
<1>3. ASSUME NEW x \in Runs, NEW since \in 0 .. Len(log[x]), BeginRead(q, x, since)
      PROVE  rd' \in [Readers -> Reads] /\ shown' = shown
  <2>1. Due(x, since) \subseteq Nat
    BY DEF Due, IInv, TypeOK
  <2>2. [at |-> "reading", run |-> x, since |-> since, pos |-> 0, garbled |-> FALSE,
         got |-> {}, due |-> Due(x, since)] \in Reads
    BY <2>1 DEF Reads, IInv, TypeOK
  <2> QED
    BY <1>1, <1>3, <2>2 DEF BeginRead
<1>4. ASSUME ReadLine(q)
      PROVE  rd' \in [Readers -> Reads] /\ shown' \subseteq Runs \X Nat \X Events
  <2>1. r \in Runs /\ rd[q].pos \in Nat /\ rd[q].pos < Len(log[r])
    BY <1>1, <1>4 DEF ReadLine, IInv, ReadShape, Reads
  <2>2. log[r][rd[q].pos + 1] \in Line
    BY <2>1 DEF IInv, TypeOK
  <2>3. CASE rd[q].garbled
    <3> QED
      BY <1>1, <1>4, <1>moved, <2>3 DEF ReadLine, IInv, TypeOK
  <2>4. CASE ~rd[q].garbled
    <3> DEFINE line == log[r][rd[q].pos + 1]
    <3>1. line.seq \in Nat
      BY <2>2 DEF Line
    <3>2. <<r, line.seq, line.ev>> \in Runs \X Nat \X Events
      BY <2>1, <2>2 DEF Line
    <3> QED
      BY <1>1, <1>4, <1>moved, <2>4, <3>1, <3>2 DEF ReadLine, Deliver, IInv, TypeOK
  <2> QED
    BY <2>3, <2>4
<1>5. ASSUME ReadWholeTail(q)
      PROVE  rd' \in [Readers -> Reads] /\ shown' \subseteq Runs \X Nat \X Events
  <2>1. r \in Runs /\ tail[r].st = "whole"
    BY <1>5 DEF ReadWholeTail, AtTail, IInv, ReadShape
  <2>2. tail[r].seq \in Nat /\ tail[r].ev \in Events
    BY <2>1 DEF IInv, TypeOK, Dense, TailBytes
  <2> QED
    BY <1>1, <1>2, <1>5, <2>1, <2>2 DEF ReadWholeTail, IInv, TypeOK
<1>6. ASSUME ReadFragment(q)
      PROVE  rd' \in [Readers -> Reads] /\ shown' = shown
  <2>1. [rd[q] EXCEPT !.garbled = TRUE] \in Reads
    BY <1>1 DEF Reads
  <2> QED
    BY <1>1, <1>6, <2>1 DEF ReadFragment
<1>7. ASSUME ReadOversized(q) \/ EndRead(q)
      PROVE  rd' \in [Readers -> Reads] /\ shown' = shown
  BY <1>1, <1>2, <1>7 DEF ReadOversized, EndRead
<1>8. rd' \in [Readers -> Reads] /\ shown' \subseteq Runs \X Nat \X Events
  BY <1>3, <1>4, <1>5, <1>6, <1>7 DEF ReaderNext, IInv, TypeOK
<1>9. UNCHANGED <<log, tail, writer, holder, op, issued, acked, created, owed,
                  forked, faults, crashes>>
  BY DEF ReaderNext, BeginRead, ReadLine, ReadOversized, ReadWholeTail, ReadFragment, EndRead
<1> QED
  BY <1>8, <1>9 DEF IInv, TypeOK

LEMMA TypeOfCrash == ASSUME IInv, Crash PROVE TypeOK'
<1>1. Absent \in Entries /\ NotReading \in Reads
  BY DEF Absent, Entries, NotReading, Reads
<1>2. crashes' \in 0 .. MaxCrashes
  BY EventLogAssumption DEF Crash, IInv, TypeOK
<1> QED
  BY <1>1, <1>2, IdleType DEF Crash, IInv, TypeOK

LEMMA TypeOKStep == ASSUME IInv, [Next]_vars PROVE TypeOK'
<1>1. CASE \E p \in Procs : ProcNext(p)
  BY <1>1, TypeOfBeginWrite, TypeOfLockAndRepair, TypeOfWriteFragment, TypeOfWriteLine,
     TypeOfWriteNewline, TypeOfFailures, TypeOfBeginFork, TypeOfSnapshot,
     TypeOfCreateTarget, TypeOfCopyLine, TypeOfEndCopy DEF ProcNext
<1>2. CASE \E q \in Readers : ReaderNext(q)
  BY <1>2, TypeOfReader
<1>3. CASE Crash
  BY <1>3, TypeOfCrash
<1>4. CASE UNCHANGED vars
  BY <1>4 DEF vars, IInv, TypeOK
<1> QED
  BY <1>1, <1>2, <1>3, <1>4 DEF Next

-----------------------------------------------------------------------------
(* What a step does to the calls: p's call moves, the others stay.          *)

Moved(p, at, r, e, t) ==
    /\ op'[p].at = at /\ op'[p].run = r /\ op'[p].ev = e /\ op'[p].to = t
    /\ \A x \in Procs \ {p} : op'[x] = op[x]

LEMMA MovedByReplacing ==
    ASSUME TypeOK, NEW p \in Procs, NEW at, NEW r, NEW e, NEW t,
           op' = [op EXCEPT ![p] = Call(at, r, e, t)]
    PROVE  Moved(p, at, r, e, t)
BY DEF TypeOK, Moved, Call

LEMMA MovedByAdvancing ==
    ASSUME TypeOK, NEW p \in Procs, NEW at, op' = [op EXCEPT ![p].at = at]
    PROVE  Moved(p, at, op[p].run, op[p].ev, op[p].to)
<1>1. op \in [Procs -> Calls] /\ op[p] \in Calls
  BY DEF TypeOK
<1> QED
  BY <1>1 DEF Moved, Calls

LEMMA CallEffects ==
    ASSUME IInv, NEW p \in Procs
    PROVE  /\ \A r \in Runs, e \in Events : BeginWrite(p, r, e) => Moved(p, "handle", r, e, NoRun)
           /\ LockAndRepair(p) => Moved(p, "locked", op[p].run, op[p].ev, op[p].to)
           /\ WriteFragment(p) => Moved(p, "line", op[p].run, op[p].ev, op[p].to)
           /\ WriteLine(p) => Moved(p, "newline", op[p].run, op[p].ev, op[p].to)
           /\ WriteNewline(p) \/ WriteFails(p) \/ OpenFails(p) \/ EndCopy(p)
                \/ (\E torn \in BOOLEAN : CopyFails(p, torn))
                => Moved(p, "idle", NoRun, NoEvent, NoRun)
           /\ \A r, t \in Runs : BeginFork(p, r, t) => Moved(p, "snapshot", r, NoEvent, t)
           /\ Snapshot(p) => Moved(p, "target", NoRun, op[p].ev, op[p].to)
           /\ CreateTarget(p) => Moved(p, "copy", op[p].to, op[p].ev, op[p].to)
           /\ CopyLine(p) => Moved(p, "copy", op[p].run, op[p].ev, op[p].to)
<1>1. TypeOK /\ op \in [Procs -> Calls] /\ op[p] \in Calls
  BY DEF IInv, TypeOK
<1>2. \A r \in Runs, e \in Events : BeginWrite(p, r, e) => Moved(p, "handle", r, e, NoRun)
  BY <1>1, MovedByReplacing DEF BeginWrite
<1>3. LockAndRepair(p) => Moved(p, "locked", op[p].run, op[p].ev, op[p].to)
  BY <1>1, MovedByAdvancing DEF LockAndRepair
<1>4. WriteFragment(p) => Moved(p, "line", op[p].run, op[p].ev, op[p].to)
  BY <1>1, MovedByAdvancing DEF WriteFragment
<1>5. WriteLine(p) => Moved(p, "newline", op[p].run, op[p].ev, op[p].to)
  BY <1>1, MovedByAdvancing DEF WriteLine
<1>6. WriteNewline(p) \/ WriteFails(p) \/ OpenFails(p) \/ EndCopy(p)
        \/ (\E torn \in BOOLEAN : CopyFails(p, torn))
        => Moved(p, "idle", NoRun, NoEvent, NoRun)
  <2>1. \A r : Release(p, r) => Moved(p, "idle", NoRun, NoEvent, NoRun)
    BY <1>1, MovedByReplacing DEF Release, Idle
  <2> QED
    BY <2>1 DEF WriteNewline, WriteFails, OpenFails, EndCopy, CopyFails
<1>7. \A r, t \in Runs : BeginFork(p, r, t) => Moved(p, "snapshot", r, NoEvent, t)
  BY <1>1, MovedByReplacing DEF BeginFork
<1>8. Snapshot(p) => Moved(p, "target", NoRun, op[p].ev, op[p].to)
  BY <1>1 DEF Snapshot, Moved, Calls
<1>9. CreateTarget(p) => Moved(p, "copy", op[p].to, op[p].ev, op[p].to)
  BY <1>1 DEF CreateTarget, Moved, Calls
<1>10. CopyLine(p) => Moved(p, "copy", op[p].run, op[p].ev, op[p].to)
  BY <1>1 DEF CopyLine, Moved, Calls
<1> QED
  BY <1>2, <1>3, <1>4, <1>5, <1>6, <1>7, <1>8, <1>9, <1>10

\* Reads leave the writers' state alone.
LEMMA ReaderFrame ==
    ASSUME NEW q \in Readers, ReaderNext(q)
    PROVE  UNCHANGED <<log, tail, writer, holder, op, issued, acked, created, owed,
                       forked, faults, crashes>>
BY DEF ReaderNext, BeginRead, ReadLine, ReadOversized, ReadWholeTail, ReadFragment, EndRead

LEMMA IdleCall == Idle.at = "idle" /\ Idle.run = NoRun /\ Idle.to = NoRun
BY DEF Idle, Call

LEMMA CrashEffects ==
    ASSUME Crash
    PROVE  /\ \A p \in Procs : op'[p].at = "idle" /\ op'[p].run = NoRun /\ op'[p].to = NoRun
           /\ \A r \in Runs : holder'[r] = NoProc /\ ~writer'[r].repaired
           /\ UNCHANGED <<log, tail, acked, shown, created>>
BY DEF Crash, Idle, Call, Absent

-----------------------------------------------------------------------------
(* The fields of a call.                                                    *)

LEMMA CallShapeStep == ASSUME IInv, [Next]_vars PROVE CallShape'
<1> USE DEF CallShape, Holding, Appending, Forking, Moved
<1> USE EventLogAssumption
<1>0. CallShape
  BY DEF IInv
<1>1. ASSUME NEW p \in Procs, NEW r \in Runs, NEW e \in Events, BeginWrite(p, r, e)
      PROVE  CallShape'
  BY <1>0, <1>1, CallEffects
<1>2. ASSUME NEW p \in Procs, LockAndRepair(p) PROVE CallShape'
  BY <1>0, <1>2, CallEffects DEF LockAndRepair
<1>3. ASSUME NEW p \in Procs, WriteFragment(p) PROVE CallShape'
  BY <1>0, <1>3, CallEffects DEF WriteFragment
<1>4. ASSUME NEW p \in Procs, WriteLine(p) PROVE CallShape'
  BY <1>0, <1>4, CallEffects DEF WriteLine
<1>5. ASSUME NEW p \in Procs,
             WriteNewline(p) \/ WriteFails(p) \/ OpenFails(p) \/ EndCopy(p)
                \/ (\E torn \in BOOLEAN : CopyFails(p, torn))
      PROVE  CallShape'
  BY <1>0, <1>5, CallEffects
<1>6. ASSUME NEW p \in Procs, NEW r \in Runs, NEW t \in Runs, BeginFork(p, r, t)
      PROVE  CallShape'
  BY <1>0, <1>6, CallEffects
<1>7. ASSUME NEW p \in Procs, Snapshot(p) PROVE CallShape'
  <2>1. Moved(p, "target", NoRun, op[p].ev, op[p].to) /\ op[p].at = "snapshot"
    BY <1>7, CallEffects DEF Snapshot
  <2> QED
    BY <1>0, <2>1
<1>8. ASSUME NEW p \in Procs, CreateTarget(p) PROVE CallShape'
  <2>1. Moved(p, "copy", op[p].to, op[p].ev, op[p].to) /\ op[p].at = "target"
    BY <1>8, CallEffects DEF CreateTarget
  <2> QED
    BY <1>0, <2>1
<1>9. ASSUME NEW p \in Procs, CopyLine(p) PROVE CallShape'
  BY <1>0, <1>9, CallEffects DEF CopyLine
<1>10. CASE \E q \in Readers : ReaderNext(q)
  BY <1>0, <1>10, ReaderFrame
<1>11. CASE Crash
  BY <1>11, CrashEffects
<1>12. CASE UNCHANGED vars
  BY <1>0, <1>12 DEF vars
<1> QED
  BY <1>1, <1>2, <1>3, <1>4, <1>5, <1>6, <1>7, <1>8, <1>9, <1>10, <1>11, <1>12
     DEF Next, ProcNext

-----------------------------------------------------------------------------
(* The mutexes and the map.                                                 *)

LEMMA LockHeldStep == ASSUME IInv, [Next]_vars PROVE LockHeld'
<1> USE DEF LockHeld, Holding, Moved
<1> USE EventLogAssumption
<1>0. LockHeld /\ holder \in [Runs -> Procs \cup {NoProc}]
  BY DEF IInv, TypeOK
<1>1. ASSUME NEW p \in Procs, NEW r \in Runs, NEW e \in Events, BeginWrite(p, r, e)
      PROVE  LockHeld'
  <2>1. Moved(p, "handle", r, e, NoRun) /\ op[p].at = "idle" /\ holder' = holder
    BY <1>1, CallEffects, IdleCall DEF BeginWrite
  <2> QED
    BY <1>0, <2>1
<1>2. ASSUME NEW p \in Procs, LockAndRepair(p) PROVE LockHeld'
  <2>1. /\ Moved(p, "locked", op[p].run, op[p].ev, op[p].to) /\ op[p].at = "handle"
        /\ holder[op[p].run] = NoProc /\ holder' = [holder EXCEPT ![op[p].run] = p]
    BY <1>2, CallEffects DEF LockAndRepair
  <2> QED
    BY <1>0, <2>1
<1>3. ASSUME NEW p \in Procs, WriteFragment(p) PROVE LockHeld'
  <2>1. /\ Moved(p, "line", op[p].run, op[p].ev, op[p].to) /\ op[p].at = "locked"
        /\ holder' = holder
    BY <1>3, CallEffects DEF WriteFragment
  <2> QED
    BY <1>0, <2>1
<1>4. ASSUME NEW p \in Procs, WriteLine(p) PROVE LockHeld'
  <2>1. /\ Moved(p, "newline", op[p].run, op[p].ev, op[p].to) /\ op[p].at \in {"locked", "line"}
        /\ holder' = holder
    BY <1>4, CallEffects DEF WriteLine
  <2> QED
    BY <1>0, <2>1
<1>5. ASSUME NEW p \in Procs,
             WriteNewline(p) \/ WriteFails(p) \/ OpenFails(p) \/ EndCopy(p)
                \/ (\E torn \in BOOLEAN : CopyFails(p, torn))
      PROVE  LockHeld'
  <2>1. Moved(p, "idle", NoRun, NoEvent, NoRun)
    BY <1>5, CallEffects
  <2>2. PICK r : Release(p, r) /\ (op[p].at \in Holding => op[p].run = r)
                   /\ (op[p].at \notin Holding => r \notin Runs \/ holder[r] = NoProc)
    BY <1>5 DEF WriteNewline, WriteFails, OpenFails, EndCopy, CopyFails, IInv, CallShape
  <2>3. \A x \in Runs : holder'[x] = IF x = r THEN NoProc ELSE holder[x]
    BY <2>2 DEF Release
  <2> QED
    BY <1>0, <2>1, <2>2, <2>3
<1>6. ASSUME NEW p \in Procs, NEW r \in Runs, NEW t \in Runs, BeginFork(p, r, t)
      PROVE  LockHeld'
  <2>1. Moved(p, "snapshot", r, NoEvent, t) /\ op[p].at = "idle" /\ holder' = holder
    BY <1>6, CallEffects, IdleCall DEF BeginFork
  <2> QED
    BY <1>0, <2>1
<1>7. ASSUME NEW p \in Procs, Snapshot(p) PROVE LockHeld'
  <2>1. /\ Moved(p, "target", NoRun, op[p].ev, op[p].to) /\ op[p].at = "snapshot"
        /\ holder' = holder
    BY <1>7, CallEffects DEF Snapshot
  <2> QED
    BY <1>0, <2>1
<1>8. ASSUME NEW p \in Procs, CreateTarget(p) PROVE LockHeld'
  <2>1. /\ Moved(p, "copy", op[p].to, op[p].ev, op[p].to) /\ op[p].at = "target"
        /\ holder[op[p].to] = NoProc /\ holder' = [holder EXCEPT ![op[p].to] = p]
    BY <1>8, CallEffects DEF CreateTarget
  <2> QED
    BY <1>0, <2>1
<1>9. ASSUME NEW p \in Procs, CopyLine(p) PROVE LockHeld'
  <2>1. /\ Moved(p, "copy", op[p].run, op[p].ev, op[p].to) /\ op[p].at = "copy"
        /\ holder' = holder
    BY <1>9, CallEffects DEF CopyLine
  <2> QED
    BY <1>0, <2>1
<1>10. CASE \E q \in Readers : ReaderNext(q)
  BY <1>0, <1>10, ReaderFrame
<1>11. CASE Crash
  BY <1>11, CrashEffects
<1>12. CASE UNCHANGED vars
  BY <1>0, <1>12 DEF vars
<1> QED
  BY <1>1, <1>2, <1>3, <1>4, <1>5, <1>6, <1>7, <1>8, <1>9, <1>10, <1>11, <1>12
     DEF Next, ProcNext

\* run_lock pins the entries that are in use.
LEMMA RunLockPins ==
    ASSUME IInv, NEW r \in Runs
    PROVE  /\ RunLock(r)[r].present
           /\ \A p \in Procs : op[p].run \in Runs => RunLock(r)[op[p].run] = writer[op[p].run]
<1>1. TypeOK /\ Dense /\ Pinned
  BY DEF IInv
<1> QED
  BY <1>1, RunLockMap DEF Pinned, Referenced

LEMMA PinnedStep == ASSUME IInv, [Next]_vars PROVE Pinned'
<1> USE DEF Pinned, Moved
<1> USE EventLogAssumption
<1>0. Pinned /\ writer \in [Runs -> Entries]
  BY DEF IInv, TypeOK
<1>1. ASSUME NEW p \in Procs, NEW r \in Runs, NEW e \in Events, BeginWrite(p, r, e)
      PROVE  Pinned'
  <2>1. Moved(p, "handle", r, e, NoRun) /\ writer' = RunLock(r)
    BY <1>1, CallEffects DEF BeginWrite
  <2> QED
    BY <1>0, <2>1, RunLockPins
<1>2. ASSUME NEW p \in Procs, LockAndRepair(p) \/ Snapshot(p) PROVE Pinned'
  <2>1. /\ \A x \in Procs : op'[x].run \in {op[x].run, NoRun}
        /\ writer' = Reseeded(op[p].run)
    BY <1>2, CallEffects DEF LockAndRepair, Snapshot
  <2>2. \A x \in Runs : writer[x].present => writer'[x].present
    BY <1>0, <2>1 DEF Reseeded, Entries
  <2> QED
    BY <1>0, <2>1, <2>2
<1>3. ASSUME NEW p \in Procs, WriteFragment(p) \/ WriteLine(p) \/ CopyLine(p) PROVE Pinned'
  <2>1. (\A x \in Procs : op'[x].run = op[x].run) /\ writer' = writer
    BY <1>3, CallEffects DEF WriteFragment, WriteLine, CopyLine
  <2> QED
    BY <1>0, <2>1
<1>4. ASSUME NEW p \in Procs,
             WriteNewline(p) \/ WriteFails(p) \/ OpenFails(p) \/ EndCopy(p)
                \/ (\E torn \in BOOLEAN : CopyFails(p, torn))
      PROVE  Pinned'
  <2>1. Moved(p, "idle", NoRun, NoEvent, NoRun)
    BY <1>4, CallEffects
  <2>2. \A x \in Runs : writer[x].present => writer'[x].present
    <3>1. CASE WriteNewline(p)
      BY <1>0, <3>1 DEF WriteNewline, Entries
    <3>2. CASE WriteFails(p)
      BY <1>0, <3>2 DEF WriteFails, Entries
    <3>3. CASE EndCopy(p)
      BY <1>0, <3>3 DEF EndCopy
    <3>4. CASE OpenFails(p) \/ \E torn \in BOOLEAN : CopyFails(p, torn)
      BY <1>0, <3>4 DEF OpenFails, CopyFails
    <3> QED
      BY <1>4, <3>1, <3>2, <3>3, <3>4
  <2> QED
    BY <1>0, <2>1, <2>2
<1>5. ASSUME NEW p \in Procs, NEW r \in Runs, NEW t \in Runs, BeginFork(p, r, t)
      PROVE  Pinned'
  <2>1. Moved(p, "snapshot", r, NoEvent, t) /\ writer' = RunLock(r)
    BY <1>5, CallEffects DEF BeginFork
  <2> QED
    BY <1>0, <2>1, RunLockPins
<1>6. ASSUME NEW p \in Procs, CreateTarget(p) PROVE Pinned'
  <2> DEFINE t == op[p].to
  <2>1. /\ Moved(p, "copy", t, op[p].ev, t)
        /\ writer' = [RunLock(t) EXCEPT ![t].repaired = FALSE] /\ t \in Runs
    BY <1>6, CallEffects DEF CreateTarget, IInv, CallShape, Forking
  <2>2. RunLock(t) \in [Runs -> Entries]
    BY <2>1, RunLockMap DEF IInv
  <2>3. \A x \in Runs : writer'[x].present = RunLock(t)[x].present
    BY <2>1, <2>2 DEF Entries
  <2> QED
    BY <1>0, <2>1, <2>3, RunLockPins
<1>7. CASE \E q \in Readers : ReaderNext(q)
  BY <1>0, <1>7, ReaderFrame
<1>8. CASE Crash
  BY <1>8, CrashEffects
<1>9. CASE UNCHANGED vars
  BY <1>0, <1>9 DEF vars
<1> QED
  BY <1>1, <1>2, <1>3, <1>4, <1>5, <1>6, <1>7, <1>8, <1>9 DEF Next, ProcNext

-----------------------------------------------------------------------------
(* What a step does to the bytes of a file: nothing; the line behind the    *)
(* last newline is committed or cut off; a fragment is written; the next    *)
(* line is written; or a fork's file grows by the next line.                *)

Same(r) == log'[r] = log[r] /\ tail'[r] = tail[r]
Committed(r) == log'[r] = Visible(r) /\ tail'[r].st = "none"
Torn(r) == log'[r] = log[r] /\ tail[r].st = "none" /\ tail'[r].st \in {"none", "torn"}
Whole(r) ==
    /\ log'[r] = log[r] /\ tail[r].st # "whole"
    /\ tail'[r].st = "whole" /\ tail'[r].seq = Len(log[r]) + 1 /\ tail'[r].ev \in Events
Grown(r) ==
    /\ tail'[r] = tail[r] /\ tail[r].st = "none"
    /\ \E e \in Content : log'[r] = Append(log[r], [seq |-> Len(log[r]) + 1, ev |-> e])
FileStep(r) == Same(r) \/ Committed(r) \/ Torn(r) \/ Whole(r) \/ Grown(r)

\* A run whose mutex is free and whose entry is marked repaired has no tail.
LEMMA RepairedFile ==
    ASSUME IInv, NEW r \in Runs, holder[r] = NoProc, writer[r].repaired
    PROVE  tail[r].st = "none" /\ Visible(r) = log[r] /\ writer[r].next = Len(Visible(r)) + 1
BY DEF IInv, SeedFits, Visible

LEMMA FileSteps ==
    ASSUME IInv, [Next]_vars, NEW x \in Runs
    PROVE  FileStep(x)
<1>0. log \in [Runs -> Seq(Line)] /\ tail \in [Runs -> TailBytes] /\ NoTail.st = "none"
  BY DEF IInv, TypeOK, NoTail
<1>1. ASSUME UNCHANGED <<log, tail>>
      PROVE  FileStep(x)
  BY <1>1 DEF FileStep, Same
<1>2. ASSUME NEW p \in Procs, LockAndRepair(p) \/ Snapshot(p) \/ WriteNewline(p)
      PROVE  FileStep(x)
  <2>1. CASE UNCHANGED <<log, tail>>
    BY <1>1, <2>1
  <2>2. CASE Repair(op[p].run)
    BY <1>0, <2>2 DEF Repair, FileStep, Same, Committed
  <2> QED
    BY <1>2, <2>1, <2>2 DEF LockAndRepair, Snapshot, WriteNewline, Repair
<1>3. ASSUME NEW p \in Procs, WriteFragment(p)
      PROVE  FileStep(x)
  <2>1. tail[op[p].run].st = "none"
    BY <1>3 DEF WriteFragment, IInv, InsideFits
  <2> QED
    BY <1>0, <1>3, <2>1 DEF WriteFragment, FileStep, Same, Torn
<1>4. ASSUME NEW p \in Procs, WriteLine(p)
      PROVE  FileStep(x)
  <2>1. /\ op[p].ev \in Events /\ writer[op[p].run].next = Len(log[op[p].run]) + 1
        /\ tail[op[p].run].st # "whole"
    BY <1>4, AppendingCall DEF WriteLine, IInv, InsideFits, Appending
  <2> QED
    BY <1>0, <1>4, <2>1 DEF WriteLine, FileStep, Same, Whole
<1>5. ASSUME NEW p \in Procs, CreateTarget(p)
      PROVE  FileStep(x)
  <2>1. op[p].to \in Runs /\ log[op[p].to] = <<>> /\ tail[op[p].to].st = "none"
    BY <1>5 DEF CreateTarget, IInv, CallShape, Forking, ForkPrivate, ForkEmpty
  <2>2. Visible(op[p].to) = <<>>
    BY <2>1 DEF Visible
  <2> QED
    BY <1>0, <1>5, <2>1, <2>2 DEF CreateTarget, FileStep, Same, Committed
<1>6. ASSUME NEW p \in Procs, CopyLine(p)
      PROVE  FileStep(x)
  <2>1. op[p].to \in Runs /\ tail[op[p].to].st = "none" /\ tail' = tail
    BY <1>6 DEF CopyLine, IInv, CallShape, Holding, InsideFits
  <2>2. CASE Head(op[p].rest).ev \in Content
    BY <1>0, <1>6, <2>1, <2>2 DEF CopyLine, FileStep, Same, Grown
  <2>3. CASE Head(op[p].rest).ev \notin Content
    BY <1>1, <1>6, <2>1, <2>3 DEF CopyLine
  <2> QED
    BY <2>2, <2>3
<1>7. ASSUME NEW p \in Procs, NEW torn \in BOOLEAN, CopyFails(p, torn)
      PROVE  FileStep(x)
  <2>1. tail[op[p].to].st = "none"
    BY <1>7 DEF CopyFails, IInv, CallShape, Holding, InsideFits
  <2> QED
    BY <1>0, <1>7, <2>1 DEF CopyFails, FileStep, Same, Torn
<1>8. CASE \E q \in Readers : ReaderNext(q)
  BY <1>1, <1>8, ReaderFrame
<1>9. CASE Crash
  BY <1>1, <1>9 DEF Crash
<1>10. CASE UNCHANGED vars
  BY <1>1, <1>10 DEF vars
<1>11. ASSUME NEW p \in Procs,
              \/ \E r \in Runs, e \in Events : BeginWrite(p, r, e)
              \/ \E r, t \in Runs : BeginFork(p, r, t)
              \/ WriteFails(p) \/ OpenFails(p) \/ EndCopy(p)
       PROVE  FileStep(x)
  BY <1>1, <1>11 DEF BeginWrite, BeginFork, WriteFails, OpenFails, EndCopy
<1> QED
  BY <1>2, <1>3, <1>4, <1>5, <1>6, <1>7, <1>8, <1>9, <1>10, <1>11 DEF Next, ProcNext

\* The committed lines only grow, so does what a parser can read, and what is
\* committed or read stays at its place.
LEMMA FileGrows ==
    ASSUME IInv, NEW r \in Runs, FileStep(r)
    PROVE  /\ Len(log[r]) <= Len(log'[r])
           /\ \A i \in 1 .. Len(log[r]) : log'[r][i] = log[r][i]
           /\ \/ Visible(r)' = Visible(r)
              \/ \E e \in Events :
                    Visible(r)' = Append(Visible(r), [seq |-> Len(Visible(r)) + 1, ev |-> e])
<1>1. TypeOK /\ Dense /\ log[r] \in Seq(Line) /\ Content \subseteq Events
  BY EventLogAssumption DEF IInv, TypeOK
<1>2. CASE Same(r)
  BY <1>1, <1>2 DEF Same, Visible
<1>3. CASE Committed(r)
  <2>1. Visible(r)' = Visible(r)
    BY <1>3 DEF Committed, Visible
  <2>2. Len(log[r]) <= Len(Visible(r))
    <3>1. Len(log[r]) \in Nat
      BY <1>1
    <3>2. Len(Visible(r)) \in {Len(log[r]), Len(log[r]) + 1}
      BY <1>1, VisibleLines
    <3> QED
      BY <3>1, <3>2
  <2>3. \A i \in 1 .. Len(log[r]) : Visible(r)[i] = log[r][i]
    BY <1>1, VisibleLines
  <2> QED
    BY <1>3, <2>1, <2>2, <2>3 DEF Committed
<1>4. CASE Torn(r)
  BY <1>1, <1>4 DEF Torn, Visible
<1>5. CASE Whole(r)
  <2>1. Visible(r) = log[r]
    BY <1>5 DEF Whole, Visible
  <2>2. Visible(r)' = Append(log[r], [seq |-> Len(log[r]) + 1, ev |-> tail'[r].ev])
    BY <1>5 DEF Whole, Visible
  <2> QED
    BY <1>1, <1>5, <2>1, <2>2 DEF Whole
<1>6. CASE Grown(r)
  <2>1. PICK e \in Content : log'[r] = Append(log[r], [seq |-> Len(log[r]) + 1, ev |-> e])
    BY <1>6 DEF Grown
  <2>2. [seq |-> Len(log[r]) + 1, ev |-> e] \in Line
    BY <1>1, <2>1 DEF Line
  <2>3. Visible(r) = log[r] /\ Visible(r)' = log'[r]
    BY <1>6 DEF Grown, Visible
  <2> QED
    BY <1>1, <2>1, <2>2, <2>3, AppendProperties
<1> QED
  BY <1>2, <1>3, <1>4, <1>5, <1>6 DEF FileStep

LEMMA DenseStep == ASSUME IInv, [Next]_vars PROVE Dense'
<1> SUFFICES ASSUME NEW r \in Runs
             PROVE  /\ \A i \in 1 .. Len(log'[r]) : log'[r][i].seq = i
                    /\ tail'[r].st = "whole" =>
                        tail'[r].seq = Len(log'[r]) + 1 /\ tail'[r].ev \in Events
  BY DEF Dense
<1>1. TypeOK /\ Dense /\ FileStep(r) /\ log[r] \in Seq(Line) /\ Content \subseteq Events
  BY FileSteps, EventLogAssumption DEF IInv, TypeOK
<1>2. CASE Same(r) \/ Torn(r) \/ Whole(r)
  BY <1>1, <1>2 DEF Same, Torn, Whole, Dense
<1>3. CASE Committed(r)
  BY <1>1, <1>3, VisibleLines DEF Committed, Numbered
<1>4. CASE Grown(r)
  <2>1. PICK e \in Content : log'[r] = Append(log[r], [seq |-> Len(log[r]) + 1, ev |-> e])
    BY <1>4 DEF Grown
  <2>2. [seq |-> Len(log[r]) + 1, ev |-> e] \in Line
    BY <1>1, <2>1 DEF Line
  <2>3. \A i \in 1 .. Len(log'[r]) : log'[r][i].seq = i
    BY <1>1, <2>1, <2>2, AppendProperties DEF Dense
  <2> QED
    BY <1>4, <2>3 DEF Grown
<1> QED
  BY <1>1, <1>2, <1>3, <1>4 DEF FileStep

-----------------------------------------------------------------------------
(* What was acknowledged and what was shown.                                *)

LEMMA AckedDurableStep == ASSUME IInv, [Next]_vars PROVE AckedDurable'
<1>1. \A r \in Runs : /\ Len(log[r]) <= Len(log'[r])
                      /\ \A i \in 1 .. Len(log[r]) : log'[r][i] = log[r][i]
  BY FileSteps, FileGrows
<1>2. \A r \in Runs : log[r] \in Seq(Line) /\ log'[r] \in Seq(Line)
  BY TypeOKStep DEF IInv, TypeOK
<1>3. ASSUME NEW a \in acked
      PROVE  a[2] \in DOMAIN log'[a[1]] /\ log'[a[1]][a[2]].ev = a[3]
  <2>1. a[1] \in Runs /\ a[2] \in DOMAIN log[a[1]] /\ log[a[1]][a[2]].ev = a[3]
    BY <1>3 DEF IInv, TypeOK, AckedDurable
  <2>2. log[a[1]] \in Seq(Line) /\ log'[a[1]] \in Seq(Line)
    BY <1>2, <2>1
  <2>3. DOMAIN log[a[1]] = 1 .. Len(log[a[1]]) /\ DOMAIN log'[a[1]] = 1 .. Len(log'[a[1]])
    BY <2>2
  <2> QED
    BY <1>1, <2>1, <2>2, <2>3
<1>4. ASSUME NEW p \in Procs, WriteNewline(p)
      PROVE  AckedDurable'
  <2> DEFINE r == op[p].run
  <2>1. r \in Runs /\ op[p].ev \in Events
    BY <1>4, AppendingCall DEF WriteNewline, IInv, Appending
  <2>2. /\ tail[r].st = "whole" /\ tail[r].ev = op[p].ev
        /\ writer[r].next = Len(log[r]) + 1 /\ Len(log[r]) \in Nat
    BY <1>2, <1>4, <2>1 DEF WriteNewline, IInv, InsideFits, Appending
  <2>3. log'[r] = Visible(r)
    BY <1>4, <2>1 DEF WriteNewline, IInv, TypeOK
  <2>4. /\ writer[r].next \in DOMAIN log'[r]
        /\ log'[r][writer[r].next].ev = op[p].ev
    <3>1. /\ Visible(r) \in Seq(Line) /\ Len(Visible(r)) = Len(log[r]) + 1
          /\ Visible(r)[Len(log[r]) + 1] = [seq |-> tail[r].seq, ev |-> tail[r].ev]
      BY <2>1, <2>2, VisibleLines DEF IInv
    <3>2. DOMAIN Visible(r) = 1 .. Len(Visible(r))
      BY <3>1
    <3> QED
      BY <2>2, <2>3, <3>1, <3>2
  <2>5. acked' = acked \cup {<<r, writer[r].next, op[p].ev>>}
    BY <1>4 DEF WriteNewline
  <2> QED
    BY <1>3, <2>4, <2>5 DEF AckedDurable
<1>5. acked' = acked \/ \E p \in Procs : WriteNewline(p)
  BY ReaderFrame DEF Next, ProcNext, vars, Crash, BeginWrite, LockAndRepair, WriteFragment,
     WriteLine, WriteFails, OpenFails, BeginFork, Snapshot, CreateTarget, CopyLine, EndCopy,
     CopyFails
<1> QED
  BY <1>3, <1>4, <1>5 DEF AckedDurable

\* A line somebody was shown stays readable at its place.
LEMMA VisibleStays ==
    ASSUME IInv, [Next]_vars, NEW r \in Runs, NEW i \in DOMAIN Visible(r)
    PROVE  i \in DOMAIN Visible(r)' /\ Visible(r)'[i] = Visible(r)[i]
<1>1. Visible(r) \in Seq(Line)
  BY VisibleLines DEF IInv
<1>2. CASE Visible(r)' = Visible(r)
  BY <1>2
<1>3. ASSUME NEW e \in Events,
             Visible(r)' = Append(Visible(r), [seq |-> Len(Visible(r)) + 1, ev |-> e])
      PROVE  i \in DOMAIN Visible(r)' /\ Visible(r)'[i] = Visible(r)[i]
  <2> DEFINE line == [seq |-> Len(Visible(r)) + 1, ev |-> e]
             old == Visible(r)
  <2>1. old \in Seq(Line) /\ i \in 1 .. Len(old)
    BY <1>1
  <2>2. line \in Line
    BY <1>1 DEF Line
  <2> HIDE DEF line, old
  <2>3. i \in DOMAIN Append(old, line) /\ Append(old, line)[i] = old[i]
    BY <2>1, <2>2, AppendProperties
  <2> QED
    BY <1>3, <2>3 DEF line, old
<1> QED
  BY <1>2, <1>3, FileSteps, FileGrows

LEMMA ShownDurableStep == ASSUME IInv, [Next]_vars PROVE ShownDurable'
<1>1. ASSUME NEW s \in shown
      PROVE  s[2] \in DOMAIN Visible(s[1])' /\ Visible(s[1])'[s[2]].ev = s[3]
  <2>1. s[1] \in Runs /\ s[2] \in DOMAIN Visible(s[1]) /\ Visible(s[1])[s[2]].ev = s[3]
    BY <1>1 DEF IInv, TypeOK, ShownDurable
  <2> QED
    BY <2>1, VisibleStays
<1>2. ASSUME shown' = shown
      PROVE  ShownDurable'
  BY <1>1, <1>2 DEF ShownDurable
<1>3. ASSUME NEW q \in Readers, ReadLine(q)
      PROVE  ShownDurable'
  <2>0. rd[q].run \in Runs /\ rd[q].pos \in Nat
    BY <1>3 DEF ReadLine, IInv, ReadShape, TypeOK, Reads
  <2> PICK r \in Runs : r = rd[q].run
    BY <2>0
  <2> PICK i \in Nat : i = rd[q].pos + 1
    BY <2>0
  <2>1. rd[q].pos \in Nat /\ rd[q].pos < Len(log[r]) /\ log[r] \in Seq(Line)
    BY <2>0, <1>3 DEF ReadLine, IInv, TypeOK
  <2>2. i \in 1 .. Len(log[r]) /\ log[r][i].seq = i
    BY <2>1 DEF IInv, Dense
  <2>3. i \in DOMAIN Visible(r) /\ Visible(r)[i] = log[r][i]
    <3>1. /\ Visible(r) \in Seq(Line) /\ Len(Visible(r)) \in {Len(log[r]), Len(log[r]) + 1}
          /\ \A j \in 1 .. Len(log[r]) : Visible(r)[j] = log[r][j]
      BY <2>1, VisibleLines DEF IInv
    <3>2. DOMAIN Visible(r) = 1 .. Len(Visible(r))
      BY <3>1
    <3> QED
      BY <2>1, <2>2, <3>1, <3>2
  <2>4. i \in DOMAIN Visible(r)' /\ Visible(r)'[i].ev = log[r][i].ev
    BY <2>1, <2>3, VisibleStays
  <2>5. shown' = shown \/ shown' = shown \cup {<<r, log[r][i].seq, log[r][i].ev>>}
    BY <1>3 DEF ReadLine, Deliver
  <2>6. CASE shown' = shown \cup {<<r, i, log[r][i].ev>>}
    BY <1>1, <2>4, <2>6 DEF ShownDurable
  <2> QED
    BY <1>2, <2>2, <2>5, <2>6
<1>4. ASSUME NEW q \in Readers, ReadWholeTail(q)
      PROVE  ShownDurable'
  <2>0. rd[q].run \in Runs /\ Len(log[rd[q].run]) \in Nat
    BY <1>4 DEF ReadWholeTail, AtTail, IInv, ReadShape, TypeOK
  <2> PICK r \in Runs, i \in Nat : r = rd[q].run /\ i = Len(log[r]) + 1
    BY <2>0
  <2>1. tail[r].st = "whole" /\ log[r] \in Seq(Line)
    BY <1>4 DEF ReadWholeTail, IInv, TypeOK
  <2>2. tail[r].seq = i
    BY <2>1 DEF IInv, Dense
  <2>3. i \in DOMAIN Visible(r) /\ Visible(r)[i].ev = tail[r].ev
    <3>1. /\ Visible(r) \in Seq(Line) /\ Len(Visible(r)) = i
          /\ Visible(r)[i] = [seq |-> tail[r].seq, ev |-> tail[r].ev]
      BY <2>1, VisibleLines DEF IInv
    <3>2. DOMAIN Visible(r) = 1 .. Len(Visible(r)) /\ i \in Nat /\ i >= 1
      BY <2>1, <3>1
    <3> QED
      BY <3>1, <3>2
  <2>4. i \in DOMAIN Visible(r)' /\ Visible(r)'[i].ev = tail[r].ev
    BY <2>1, <2>3, VisibleStays
  <2>5. shown' = shown \/ shown' = shown \cup {<<r, tail[r].seq, tail[r].ev>>}
    BY <1>4 DEF ReadWholeTail
  <2>6. CASE shown' = shown \cup {<<r, i, tail[r].ev>>}
    BY <1>1, <2>4, <2>6 DEF ShownDurable
  <2> QED
    BY <1>2, <2>2, <2>5, <2>6
<1>5. \/ shown' = shown
      \/ \E q \in Readers : ReadLine(q) \/ ReadWholeTail(q)
  BY DEF Next, ProcNext, ReaderNext, vars, Crash, BeginWrite, LockAndRepair, WriteFragment,
     WriteLine, WriteNewline, WriteFails, OpenFails, BeginFork, Snapshot, CreateTarget,
     CopyLine, EndCopy, CopyFails, BeginRead, ReadOversized, ReadFragment, EndRead
<1> QED
  BY <1>2, <1>3, <1>4, <1>5

LEMMA ReadShapeStep == ASSUME IInv, [Next]_vars PROVE ReadShape'
<1>1. ReadShape /\ rd \in [Readers -> Reads] /\ NotReading.at = "idle"
  BY DEF IInv, TypeOK, NotReading
<1>2. ASSUME NEW q \in Readers, ReaderNext(q)
      PROVE  ReadShape'
  <2>1. \A x \in Readers \ {q} : rd'[x] = rd[x]
    BY <1>1, <1>2 DEF ReaderNext, BeginRead, ReadLine, Deliver, ReadOversized,
       ReadWholeTail, ReadFragment, EndRead
  <2>2. rd'[q].at = "reading" => rd'[q].run \in Runs
    <3>1. ASSUME NEW r \in Runs, NEW since \in 0 .. Len(log[r]), BeginRead(q, r, since)
          PROVE  rd'[q].run \in Runs
      BY <1>1, <3>1 DEF BeginRead
    <3>2. ASSUME ReadLine(q) \/ ReadFragment(q)
          PROVE  rd'[q].run \in Runs
      <4>1. rd[q].run \in Runs /\ rd[q] \in Reads
        BY <1>1, <3>2 DEF ReadLine, ReadFragment, AtTail, ReadShape
      <4> QED
        BY <1>1, <3>2, <4>1 DEF ReadLine, Deliver, ReadFragment, Reads
    <3>3. ASSUME ReadOversized(q) \/ ReadWholeTail(q) \/ EndRead(q)
          PROVE  rd'[q].at = "idle"
      BY <1>1, <3>3 DEF ReadOversized, ReadWholeTail, EndRead
    <3> QED
      BY <1>2, <3>1, <3>2, <3>3 DEF ReaderNext
  <2> QED
    BY <1>1, <2>1, <2>2 DEF ReadShape
<1>3. CASE Crash
  BY <1>1, <1>3 DEF Crash, ReadShape
<1>4. CASE UNCHANGED rd
  BY <1>1, <1>4 DEF ReadShape
<1>5. UNCHANGED rd \/ Crash \/ \E q \in Readers : ReaderNext(q)
  BY DEF Next, ProcNext, vars, BeginWrite, LockAndRepair, WriteFragment,
     WriteLine, WriteNewline, WriteFails, OpenFails, BeginFork, Snapshot, CreateTarget,
     CopyLine, EndCopy, CopyFails
<1> QED
  BY <1>2, <1>3, <1>4, <1>5

-----------------------------------------------------------------------------
(* Forks.                                                                   *)

LEMMA ForkPrivateStep == ASSUME IInv, [Next]_vars PROVE ForkPrivate'
<1> USE EventLogAssumption
<1>0. ForkPrivate /\ CallShape /\ created \subseteq Runs
  BY DEF IInv, TypeOK
<1>3. ASSUME NEW p \in Procs, NEW r \in Runs, NEW e \in Events, BeginWrite(p, r, e)
      PROVE  ForkPrivate'
  <2>1. /\ Moved(p, "handle", r, e, NoRun) /\ r \in created
        /\ \A q \in Procs : op[q].to # r
        /\ UNCHANGED <<log, tail, created>>
    BY <1>3, CallEffects DEF BeginWrite
  <2> QED
    BY <1>0, <2>1 DEF ForkPrivate, Moved, CallsOnCreated, ForkOwned, ForkEmpty, UnbornEmpty
<1>4. ASSUME NEW p \in Procs, NEW r \in Runs, NEW t \in Runs, BeginFork(p, r, t)
      PROVE  ForkPrivate'
  <2>1. /\ Moved(p, "snapshot", r, NoEvent, t) /\ r \in created /\ t \in Runs \ created
        /\ \A q \in Procs : op[q].to # r
        /\ UNCHANGED <<log, tail>> /\ created' = created \cup {t}
    BY <1>4, CallEffects DEF BeginFork
  <2> QED
    BY <1>0, <2>1 DEF ForkPrivate, Moved, CallsOnCreated, ForkOwned, ForkEmpty, UnbornEmpty
<1>5. ASSUME NEW p \in Procs,
             WriteNewline(p) \/ WriteFails(p) \/ OpenFails(p) \/ EndCopy(p)
                \/ (\E torn \in BOOLEAN : CopyFails(p, torn))
      PROVE  ForkPrivate'
  <2>1. Moved(p, "idle", NoRun, NoEvent, NoRun) /\ created' = created
    BY <1>5, CallEffects DEF WriteNewline, WriteFails, OpenFails, EndCopy, CopyFails
  <2>2. \E r \in Runs \cup {NoRun} : /\ r = op[p].run
                                     /\ \A x \in Runs \ {r} : Same(x)
    BY <1>5 DEF WriteNewline, WriteFails, OpenFails, EndCopy, CopyFails, IInv, TypeOK,
       Same, CallShape, Calls
  <2>3. CallsOnCreated'
    BY <1>0, <2>1, <2>2 DEF ForkPrivate, Moved, Same, CallsOnCreated
  <2>4. ForkOwned'
    BY <1>0, <2>1, <2>2 DEF ForkPrivate, Moved, Same, ForkOwned, CallsOnCreated
  <2>5. ForkEmpty'
    BY <1>0, <2>1, <2>2 DEF ForkPrivate, Moved, Same, ForkEmpty, ForkOwned, CallShape, Forking
  <2>6. UnbornEmpty'
    BY <1>0, <2>1, <2>2 DEF ForkPrivate, Moved, Same, UnbornEmpty, CallsOnCreated
  <2> QED
    BY <2>3, <2>4, <2>5, <2>6 DEF ForkPrivate
<1>6. ASSUME NEW p \in Procs, LockAndRepair(p) \/ WriteFragment(p) \/ WriteLine(p)
      PROVE  ForkPrivate'
  <2>1. /\ \A x \in Procs : op'[x].run = op[x].run /\ op'[x].to = op[x].to
        /\ \A x \in Procs : op'[x].at \in {"snapshot", "target"} => op[x].at = op'[x].at
        /\ created' = created /\ op[p].run \in Runs
    BY <1>6, CallEffects DEF LockAndRepair, WriteFragment, WriteLine, Moved, IInv,
       CallShape, Holding
  <2>2. \A x \in Runs \ {op[p].run} : Same(x)
    BY <1>6, <2>1 DEF LockAndRepair, WriteFragment, WriteLine, Repair, Same, IInv, TypeOK
  <2>3. CallsOnCreated'
    BY <1>0, <2>1, <2>2 DEF ForkPrivate, Moved, Same, CallsOnCreated
  <2>4. ForkOwned'
    BY <1>0, <2>1, <2>2 DEF ForkPrivate, Moved, Same, ForkOwned, CallsOnCreated
  <2>5. ForkEmpty'
    BY <1>0, <2>1, <2>2 DEF ForkPrivate, Moved, Same, ForkEmpty, ForkOwned, CallShape, Forking
  <2>6. UnbornEmpty'
    BY <1>0, <2>1, <2>2 DEF ForkPrivate, Moved, Same, UnbornEmpty, CallsOnCreated
  <2> QED
    BY <2>3, <2>4, <2>5, <2>6 DEF ForkPrivate
<1>7. ASSUME NEW p \in Procs, Snapshot(p)
      PROVE  ForkPrivate'
  <2>1. /\ Moved(p, "target", NoRun, op[p].ev, op[p].to) /\ created' = created
        /\ op[p].run \in Runs /\ op[p].at = "snapshot"
    BY <1>7, CallEffects DEF Snapshot, IInv, CallShape
  <2>2. \A x \in Runs \ {op[p].run} : Same(x)
    BY <1>7, <2>1 DEF Snapshot, Repair, Same, IInv, TypeOK
  <2>3. NoRun \notin Runs /\ op[p].to \in Runs
    BY <1>0, <2>1 DEF CallShape, Forking
  <2>4. CallsOnCreated'
    BY <1>0, <2>1, <2>2, <2>3 DEF ForkPrivate, Moved, Same, CallsOnCreated
  <2>5. ForkOwned'
    BY <1>0, <2>1, <2>2, <2>3 DEF ForkPrivate, Moved, Same, ForkOwned, CallsOnCreated
  <2>6. ForkEmpty'
    BY <1>0, <2>1, <2>2, <2>3 DEF ForkPrivate, Moved, Same, ForkEmpty, ForkOwned, CallShape, Forking
  <2>7. UnbornEmpty'
    BY <1>0, <2>1, <2>2, <2>3 DEF ForkPrivate, Moved, Same, UnbornEmpty, CallsOnCreated
  <2> QED
    BY <2>4, <2>5, <2>6, <2>7 DEF ForkPrivate
<1>8. ASSUME NEW p \in Procs, CreateTarget(p) \/ CopyLine(p)
      PROVE  ForkPrivate'
  <2>1. /\ Moved(p, "copy", op[p].to, op[p].ev, op[p].to) /\ created' = created
        /\ op[p].to \in Runs
    BY <1>8, CallEffects DEF CreateTarget, CopyLine, IInv, CallShape, Forking, Holding
  <2>2. \A x \in Runs \ {op[p].to} : Same(x)
    BY <1>8, <2>1 DEF CreateTarget, CopyLine, Same, IInv, TypeOK
  <2>3. CallsOnCreated'
    BY <1>0, <2>1, <2>2 DEF ForkPrivate, Moved, Same, CallsOnCreated
  <2>4. ForkOwned'
    BY <1>0, <2>1, <2>2 DEF ForkPrivate, Moved, Same, ForkOwned, CallsOnCreated
  <2>5. ForkEmpty'
    BY <1>0, <2>1, <2>2 DEF ForkPrivate, Moved, Same, ForkEmpty, ForkOwned, CallShape, Forking
  <2>6. UnbornEmpty'
    BY <1>0, <2>1, <2>2 DEF ForkPrivate, Moved, Same, UnbornEmpty, CallsOnCreated
  <2> QED
    BY <2>3, <2>4, <2>5, <2>6 DEF ForkPrivate
<1>9. CASE \E q \in Readers : ReaderNext(q)
  BY <1>0, <1>9, ReaderFrame DEF ForkPrivate, CallsOnCreated, ForkOwned, ForkEmpty,
     UnbornEmpty
<1>10. CASE Crash
  BY <1>0, <1>10, CrashEffects DEF ForkPrivate, CallsOnCreated, ForkOwned, ForkEmpty,
     UnbornEmpty
<1>11. CASE UNCHANGED vars
  BY <1>0, <1>11 DEF ForkPrivate, vars, CallsOnCreated, ForkOwned, ForkEmpty,
     UnbornEmpty
<1> QED
  BY <1>3, <1>4, <1>5, <1>6, <1>7, <1>8, <1>9, <1>10, <1>11 DEF Next, ProcNext

-----------------------------------------------------------------------------
(* The entries describe the files.                                          *)

\* Fits(r): nobody is inside and the entry is not stale.  Inside(p): the entry of
\* the run p is inside of.
Fits(r) == holder[r] = NoProc /\ writer[r].repaired =>
    tail[r].st = "none" /\ writer[r].next = Len(log[r]) + 1
Inside(p) ==
    /\ op[p].at \in Appending =>
        writer[op[p].run].repaired /\ writer[op[p].run].next = Len(log[op[p].run]) + 1
    /\ op[p].at \in {"locked", "copy"} => tail[op[p].run].st = "none"
    /\ op[p].at = "copy" => ~writer[op[p].run].repaired
    /\ op[p].at = "line" => tail[op[p].run].st = "torn"
    /\ op[p].at = "newline" =>
        tail[op[p].run].st = "whole" /\ tail[op[p].run].ev = op[p].ev

LEMMA FitsAll ==
    /\ SeedFits <=> \A r \in Runs : Fits(r)
    /\ InsideFits <=> \A p \in Procs : Inside(p)
BY DEF SeedFits, InsideFits, Fits, Inside

\* A step of p that touches one run only, of which p holds the mutex or nobody
\* does, cannot disturb the calls inside of a run.
LEMMA OthersInside ==
    ASSUME IInv, NEW p \in Procs, NEW r, r \in Runs => holder[r] \in {p, NoProc},
           NEW x \in Procs \ {p}, op'[x] = op[x],
           \A y \in Runs \ {r} : Same(y) /\ (op[x].run = y => writer'[y] = writer[y])
    PROVE  Inside(x)'
<1>1. Inside(x) /\ LockHeld /\ CallShape
  BY FitsAll DEF IInv
<1>2. CASE op[x].at \notin Holding
  BY <1>2 DEF Inside, Holding, Appending
<1>3. CASE op[x].at \in Holding
  <2>1. op[x].run \in Runs /\ holder[op[x].run] = x
    BY <1>1, <1>3 DEF LockHeld, CallShape
  <2>2. op[x].run # r
    BY <2>1, EventLogAssumption
  <2>3. Same(op[x].run) /\ writer'[op[x].run] = writer[op[x].run]
    BY <2>1, <2>2
  <2> QED
    BY <1>1, <2>3 DEF Inside, Same
<1> QED
  BY <1>2, <1>3

\* What run_lock leaves behind is no less accurate than what it found.
LEMMA RunLockFits ==
    ASSUME IInv, NEW r \in Runs, UNCHANGED <<log, tail, holder>>,
           \A x \in Runs : writer'[x].repaired => writer'[x] = RunLock(r)[x],
           NEW y \in Runs
    PROVE  Fits(y)'
<1>1. TypeOK /\ Dense /\ Fits(y)
  BY FitsAll DEF IInv
<1>2. writer'[y].repaired => writer'[y] = writer[y]
  BY <1>1, RunLockMap
<1> QED
  BY <1>1, <1>2 DEF Fits

LEMMA FitsOfBegin ==
    ASSUME IInv, NEW p \in Procs,
           \/ \E r \in Runs, e \in Events : BeginWrite(p, r, e)
           \/ \E r, t \in Runs : BeginFork(p, r, t)
    PROVE  SeedFits' /\ InsideFits'
<1>1. PICK r \in Runs : writer' = RunLock(r)
  BY DEF BeginWrite, BeginFork
<1>2. UNCHANGED <<log, tail, holder>> /\ op'[p].at \in {"handle", "snapshot"}
  BY CallEffects DEF BeginWrite, BeginFork, Moved
<1>3. \A x \in Procs \ {p} : op'[x] = op[x]
  BY CallEffects DEF Moved
<1>4. \A x \in Procs : op[x].run \in Runs => writer'[op[x].run] = writer[op[x].run]
  BY <1>1, RunLockPins
<1>5. ASSUME NEW x \in Procs
      PROVE  Inside(x)'
  <2>1. CASE x = p
    BY <1>2, <2>1 DEF Inside, Appending
  <2>2. CASE x # p
    BY <1>2, <1>3, <1>4, <2>2, OthersInside, EventLogAssumption DEF Same
  <2> QED
    BY <2>1, <2>2
<1>6. \A y \in Runs : Fits(y)'
  BY <1>1, <1>2, RunLockFits
<1> QED
  BY <1>5, <1>6 DEF SeedFits, InsideFits, Fits, Inside

\* Repairing and seeding a run nobody is inside of makes its entry accurate.
LEMMA RepairFits ==
    ASSUME IInv, NEW r \in Runs, holder[r] = NoProc, writer' = Reseeded(r),
           (writer[r].repaired /\ UNCHANGED <<log, tail>>) \/ Repair(r)
    PROVE  /\ writer'[r].repaired /\ writer'[r].next = Len(log'[r]) + 1
           /\ tail'[r].st = "none"
           /\ \A y \in Runs \ {r} : Same(y) /\ writer'[y] = writer[y]
<1>1. TypeOK /\ Dense /\ NoTail.st = "none"
  BY DEF IInv, NoTail
<1>2. CASE writer[r].repaired
  <2>1. tail[r].st = "none" /\ Visible(r) = log[r] /\ writer[r].next = Len(Visible(r)) + 1
    BY <1>2, RepairedFile
  <2>2. writer' = writer
    BY <1>2 DEF Reseeded
  <2>3. log'[r] = log[r] /\ tail'[r].st = "none" /\ \A y \in Runs \ {r} : Same(y)
    BY <1>1, <2>1 DEF Repair, Same, TypeOK
  <2> QED
    BY <1>2, <2>1, <2>2, <2>3
<1>3. CASE ~writer[r].repaired
  <2>1. /\ writer'[r].repaired
        /\ writer'[r].next = NextSeqOf(Visible(r), Window(Visible(r)))
        /\ \A y \in Runs \ {r} : writer'[y] = writer[y]
    BY <1>1, <1>3 DEF Reseeded, TypeOK
  <2>2. log'[r] = Visible(r) /\ tail'[r].st = "none" /\ \A y \in Runs \ {r} : Same(y)
    BY <1>1, <1>3 DEF Repair, Same, TypeOK
  <2> QED
    BY <1>1, <2>1, <2>2, SeedOfRepaired
<1> QED
  BY <1>2, <1>3

LEMMA FitsOfRepair ==
    ASSUME IInv, NEW p \in Procs, LockAndRepair(p) \/ Snapshot(p)
    PROVE  SeedFits' /\ InsideFits'
<1>1. PICK r \in Runs : r = op[p].run
  BY DEF LockAndRepair, Snapshot, IInv, CallShape
<1>2. /\ holder[r] = NoProc /\ writer' = Reseeded(r)
      /\ (writer[r].repaired /\ UNCHANGED <<log, tail>>) \/ Repair(r)
  BY <1>1 DEF LockAndRepair, Snapshot
<1>3. /\ writer'[r].repaired /\ writer'[r].next = Len(log'[r]) + 1
      /\ tail'[r].st = "none"
      /\ \A y \in Runs \ {r} : Same(y) /\ writer'[y] = writer[y]
  BY <1>2, RepairFits
<1>4. /\ \A x \in Procs \ {p} : op'[x] = op[x]
      /\ op'[p].at = "target" \/ (op'[p].at = "locked" /\ op'[p].run = r)
  <2>1. CASE LockAndRepair(p)
    BY <1>1, <2>1, CallEffects DEF Moved
  <2>2. CASE Snapshot(p)
    BY <1>1, <2>2, CallEffects DEF Moved
  <2> QED
    BY <2>1, <2>2
<1>5. \A y \in Runs \ {r} : holder'[y] = holder[y]
  BY <1>1 DEF LockAndRepair, Snapshot, IInv, TypeOK
<1>6. ASSUME NEW x \in Procs
      PROVE  Inside(x)'
  <2>1. CASE x = p
    BY <1>3, <1>4, <2>1 DEF Inside, Appending
  <2>2. CASE x # p
    BY <1>2, <1>3, <1>4, <2>2, OthersInside
  <2> QED
    BY <2>1, <2>2
<1>7. ASSUME NEW y \in Runs
      PROVE  Fits(y)'
  <2>1. Fits(y)
    BY FitsAll DEF IInv
  <2> QED
    BY <1>3, <1>5, <2>1 DEF Fits, Same
<1> QED
  BY <1>6, <1>7 DEF SeedFits, InsideFits, Fits, Inside

\* A step inside a run that stays inside.
LEMMA FitsOfBytes ==
    ASSUME IInv, NEW p \in Procs, WriteFragment(p) \/ WriteLine(p) \/ CopyLine(p)
    PROVE  SeedFits' /\ InsideFits'
<1>1. PICK r \in Runs : r = op[p].run
  BY DEF WriteFragment, WriteLine, CopyLine, IInv, CallShape, Holding
<1>2. holder[r] = p /\ holder' = holder /\ writer' = writer /\ p # NoProc
  BY <1>1, EventLogAssumption DEF WriteFragment, WriteLine, CopyLine, IInv, LockHeld, Holding
<1>3. \A y \in Runs \ {r} : Same(y)
  BY <1>1 DEF WriteFragment, WriteLine, CopyLine, IInv, TypeOK, CallShape, Same
<1>4. \A x \in Procs \ {p} : op'[x] = op[x]
  BY CallEffects DEF Moved
<1>5. Inside(p)'
  <2>1. Inside(p) /\ TypeOK /\ tail \in [Runs -> TailBytes]
    BY FitsAll DEF IInv, TypeOK
  <2>2. CASE WriteFragment(p)
    <3>1. /\ op'[p].at = "line" /\ op'[p].run = r /\ log' = log /\ tail'[r].st = "torn"
      BY <1>1, <2>1, <2>2, CallEffects DEF WriteFragment, Moved
    <3> QED
      BY <1>1, <1>2, <2>1, <2>2, <3>1 DEF WriteFragment, Inside, Appending
  <2>3. CASE WriteLine(p)
    <3>1. /\ op'[p].at = "newline" /\ op'[p].run = r /\ op'[p].ev = op[p].ev
          /\ log' = log /\ tail'[r].st = "whole" /\ tail'[r].ev = op[p].ev
      BY <1>1, <2>1, <2>3, CallEffects DEF WriteLine, Moved
    <3> QED
      BY <1>1, <1>2, <2>1, <2>3, <3>1 DEF WriteLine, Inside, Appending
  <2>4. CASE CopyLine(p)
    <3>1. op'[p].at = "copy" /\ op'[p].run = r /\ tail' = tail /\ op[p].at = "copy"
      BY <1>1, <2>4, CallEffects DEF CopyLine, Moved
    <3> QED
      BY <1>1, <1>2, <2>1, <3>1 DEF Inside, Appending
  <2> QED
    BY <2>2, <2>3, <2>4
<1>6. ASSUME NEW x \in Procs
      PROVE  Inside(x)'
  BY <1>2, <1>3, <1>4, <1>5, OthersInside
<1>7. ASSUME NEW y \in Runs
      PROVE  Fits(y)'
  <2>1. Fits(y)
    BY FitsAll DEF IInv
  <2> QED
    BY <1>2, <1>3, <2>1 DEF Fits, Same
<1> QED
  BY <1>6, <1>7 DEF SeedFits, InsideFits, Fits, Inside

\* A call that ends, well or not, leaves its run with an accurate entry or with
\* one that has to be seeded again.
LEMMA FitsOfRelease ==
    ASSUME IInv, NEW p \in Procs,
           WriteNewline(p) \/ WriteFails(p) \/ OpenFails(p) \/ EndCopy(p)
              \/ (\E torn \in BOOLEAN : CopyFails(p, torn))
    PROVE  SeedFits' /\ InsideFits'
<1> USE EventLogAssumption
<1>1. PICK r \in Runs \cup {NoRun} : r = op[p].run
  BY DEF IInv, TypeOK, Calls
<1>2. /\ r \in Runs => holder[r] \in {p, NoProc}
      /\ op[p].at = "copy" => op[p].to = r
      /\ op[p].at \in Holding => r \in Runs
      /\ op[p].at \in {"handle", "snapshot"} => r \in Runs
  BY <1>1 DEF WriteNewline, WriteFails, OpenFails, EndCopy, CopyFails, IInv, LockHeld,
     CallShape, Holding
<1>3. /\ \A y \in Runs \ {r} : Same(y) /\ writer'[y] = writer[y]
      /\ \A y \in Runs : holder'[y] = IF y = r THEN NoProc ELSE holder[y]
  <2>1. CASE WriteNewline(p)
    BY <1>1, <2>1 DEF WriteNewline, Release, Same, IInv, TypeOK
  <2>2. CASE WriteFails(p)
    BY <1>1, <2>2 DEF WriteFails, Release, Same, IInv, TypeOK
  <2>3. CASE OpenFails(p)
    BY <1>1, <1>2, <2>3 DEF OpenFails, Release, Same, IInv, TypeOK
  <2>4. CASE EndCopy(p)
    BY <1>1, <1>2, <2>4 DEF EndCopy, Release, Same, IInv, TypeOK
  <2>5. ASSUME NEW torn \in BOOLEAN, CopyFails(p, torn)
        PROVE  /\ \A y \in Runs \ {r} : Same(y) /\ writer'[y] = writer[y]
               /\ \A y \in Runs : holder'[y] = IF y = r THEN NoProc ELSE holder[y]
    BY <1>1, <1>2, <2>5 DEF CopyFails, Release, Same, IInv, TypeOK
  <2> QED
    BY <2>1, <2>2, <2>3, <2>4, <2>5
<1>4. op'[p].at = "idle" /\ \A x \in Procs \ {p} : op'[x] = op[x]
  BY CallEffects DEF Moved
<1>5. ASSUME NEW x \in Procs
      PROVE  Inside(x)'
  <2>1. CASE x = p
    BY <1>4, <2>1 DEF Inside, Appending
  <2>2. CASE x # p
    BY <1>2, <1>3, <1>4, <2>2, OthersInside
  <2> QED
    BY <2>1, <2>2
<1>6. ASSUME r \in Runs
      PROVE  Fits(r)'
  <2>1. Inside(p) /\ Fits(r) /\ CallShape /\ TypeOK /\ Dense
    BY <1>6, FitsAll DEF IInv
  <2>2. writer \in [Runs -> Entries] /\ log \in [Runs -> Seq(Line)]
    BY <2>1 DEF TypeOK
  <2>3. CASE WriteNewline(p)
    <3>1. tail[r].st = "whole" /\ writer[r].next = Len(log[r]) + 1
      BY <1>1, <2>1, <2>3 DEF WriteNewline, Inside, Appending
    <3>2. Len(Visible(r)) = Len(log[r]) + 1 /\ Len(log[r]) \in Nat
      <4>1. Len(log[r]) \in Nat
        BY <1>6, <2>2
      <4>2. Len(Visible(r)) = Len(log[r]) + 1
        BY <1>6, <2>1, <3>1, VisibleLines
      <4> QED
        BY <4>1, <4>2
    <3>3. tail'[r].st = "none" /\ log'[r] = Visible(r)
      BY <1>1, <1>6, <2>1, <2>2, <2>3 DEF WriteNewline, TypeOK, NoTail
    <3>4. writer'[r].next = writer[r].next + 1
      BY <1>1, <1>6, <2>2, <2>3 DEF WriteNewline, Entries
    <3> QED
      BY <3>1, <3>2, <3>3, <3>4 DEF Fits
  <2>4. CASE WriteFails(p)
    <3>1. ~writer'[r].repaired
      BY <1>1, <1>6, <2>2, <2>4 DEF WriteFails, Entries
    <3> QED
      BY <3>1 DEF Fits
  <2>5. CASE OpenFails(p)
    <3>1. UNCHANGED <<log, tail, writer>>
      BY <2>5 DEF OpenFails
    <3>2. holder[r] = NoProc \/ op[p].at = "locked"
      BY <1>1, <1>6, <2>1, <2>5 DEF OpenFails, CallShape
    <3> QED
      BY <1>1, <2>1, <3>1, <3>2 DEF Fits, Inside, Appending
  <2>6. CASE EndCopy(p)
    <3>1. UNCHANGED <<log, tail>> /\ tail[r].st = "none" /\ op[p].to = r
      BY <1>1, <1>2, <2>1, <2>6 DEF EndCopy, Inside
    <3>2. writer'[r].next = Len(log[r]) + 1
      BY <1>6, <2>2, <2>6, <3>1 DEF EndCopy
    <3> QED
      BY <3>1, <3>2 DEF Fits
  <2>7. ASSUME NEW torn \in BOOLEAN, CopyFails(p, torn)
        PROVE  Fits(r)'
    BY <1>1, <2>1, <2>7 DEF CopyFails, Inside, Fits
  <2> QED
    BY <2>3, <2>4, <2>5, <2>6, <2>7
<1>7. ASSUME NEW y \in Runs \ {r}
      PROVE  Fits(y)'
  <2>1. Fits(y)
    BY FitsAll DEF IInv
  <2> QED
    BY <1>3, <2>1 DEF Fits, Same
<1> QED
  BY <1>5, <1>6, <1>7 DEF SeedFits, InsideFits, Fits, Inside

LEMMA FitsOfCreateTarget ==
    ASSUME IInv, NEW p \in Procs, CreateTarget(p)
    PROVE  SeedFits' /\ InsideFits'
<1> USE EventLogAssumption
<1>1. PICK t \in Runs : t = op[p].to
  BY DEF CreateTarget, IInv, CallShape, Forking
<1>2. TypeOK /\ Dense /\ RunLock(t) \in [Runs -> Entries]
  BY RunLockMap DEF IInv
<1>3. /\ holder[t] = NoProc /\ holder' = [holder EXCEPT ![t] = p]
      /\ tail'[t].st = "none" /\ \A y \in Runs \ {t} : Same(y)
      /\ writer' = [RunLock(t) EXCEPT ![t].repaired = FALSE]
  BY <1>1, <1>2 DEF CreateTarget, TypeOK, Same, NoTail
<1>4. ~writer'[t].repaired /\ \A y \in Runs \ {t} : writer'[y] = RunLock(t)[y]
  BY <1>2, <1>3 DEF Entries
<1>5. \A x \in Procs : op[x].run \in Runs \ {t} => writer'[op[x].run] = writer[op[x].run]
  BY <1>4, RunLockPins
<1>6. /\ \A x \in Procs \ {p} : op'[x] = op[x]
      /\ op'[p].at = "copy" /\ op'[p].run = t
  BY <1>1, CallEffects DEF Moved
<1>7. ASSUME NEW x \in Procs
      PROVE  Inside(x)'
  <2>1. CASE x = p
    BY <1>3, <1>4, <1>6, <2>1 DEF Inside, Appending
  <2>2. CASE x # p
    BY <1>3, <1>5, <1>6, <2>2, OthersInside
  <2> QED
    BY <2>1, <2>2
<1>8. ASSUME NEW y \in Runs
      PROVE  Fits(y)'
  <2>1. Fits(y)
    BY FitsAll DEF IInv
  <2>2. CASE y = t
    BY <1>4, <2>2 DEF Fits
  <2>3. CASE y # t
    <3>1. writer'[y].repaired => writer'[y] = writer[y]
      BY <1>2, <1>4, <2>3, RunLockMap
    <3>2. holder'[y] = holder[y]
      BY <1>2, <1>3, <2>3 DEF TypeOK
    <3> QED
      BY <1>3, <2>1, <2>3, <3>1, <3>2 DEF Fits, Same
  <2> QED
    BY <2>2, <2>3
<1> QED
  BY <1>7, <1>8 DEF SeedFits, InsideFits, Fits, Inside

LEMMA FitsStep == ASSUME IInv, [Next]_vars PROVE SeedFits' /\ InsideFits'
<1>1. SeedFits /\ InsideFits
  BY DEF IInv
<1>2. CASE \E q \in Readers : ReaderNext(q)
  BY <1>1, <1>2, ReaderFrame DEF SeedFits, InsideFits
<1>3. CASE Crash
  BY <1>3, CrashEffects DEF SeedFits, InsideFits, Appending
<1>4. CASE UNCHANGED vars
  BY <1>1, <1>4 DEF SeedFits, InsideFits, vars
<1>5. ASSUME NEW p \in Procs, ProcNext(p)
      PROVE  SeedFits' /\ InsideFits'
  BY <1>5, FitsOfBegin, FitsOfRepair, FitsOfBytes, FitsOfRelease, FitsOfCreateTarget
     DEF ProcNext
<1> QED
  BY <1>2, <1>3, <1>4, <1>5 DEF Next

-----------------------------------------------------------------------------
LEMMA InitIInv == Init => IInv
<1> SUFFICES ASSUME Init PROVE IInv
  OBVIOUS
<1> USE EventLogAssumption DEF Init
<1>1. TypeOK
  <2>1. Absent \in Entries /\ NotReading \in Reads
    BY DEF Absent, Entries, NotReading, Reads
  <2>2. <<>> \in Seq(Line)
    BY EmptySeq
  <2> QED
    BY <2>1, <2>2, IdleType, NoTailType DEF TypeOK
<1>2. CallShape
  BY DEF CallShape, Idle, Call, Forking, Holding, Appending
<1>3. LockHeld /\ Pinned
  BY DEF LockHeld, Pinned, Idle, Call, Holding
<1>4. ForkPrivate
  BY DEF ForkPrivate, CallsOnCreated, ForkOwned, ForkEmpty, UnbornEmpty, Idle, Call, NoTail
<1>5. Dense
  BY DEF Dense, NoTail
<1>6. SeedFits /\ InsideFits
  BY DEF SeedFits, InsideFits, Absent, Idle, Call, Appending
<1>7. ReadShape /\ AckedDurable /\ ShownDurable
  BY DEF ReadShape, NotReading, AckedDurable, ShownDurable
<1> QED
  BY <1>1, <1>2, <1>3, <1>4, <1>5, <1>6, <1>7 DEF IInv

LEMMA NextIInv == IInv /\ [Next]_vars => IInv'
BY TypeOKStep, CallShapeStep, LockHeldStep, PinnedStep, ForkPrivateStep, DenseStep, FitsStep,
   ReadShapeStep, AckedDurableStep, ShownDurableStep DEF IInv

LEMMA Invariance == Spec => []IInv
BY InitIInv, NextIInv, PTL DEF Spec

\* Every value of every variable has its type in every reachable state.
THEOREM TypeCorrect == Spec => []TypeOK
<1>1. IInv => TypeOK
  BY DEF IInv
<1> QED
  BY <1>1, Invariance, PTL

\* The lines of every log are numbered 1, 2, 3, ... without a gap or a repetition,
\* for any interleaving of writers and forks and any number of faults and crashes
\* (EventWriter: next_seq, run_lock, ensure_tail_repaired).
THEOREM SeqsAreDense == Spec => []SeqsDense
<1>1. IInv => SeqsDense
  <2> SUFFICES ASSUME IInv, NEW r \in Runs, NEW i \in DOMAIN Visible(r)
               PROVE  Visible(r)[i].seq = i
    BY DEF SeqsDense
  <2>1. Visible(r) \in Seq(Line) /\ Numbered(Visible(r))
    BY VisibleLines DEF IInv
  <2> QED
    BY <2>1 DEF Numbered
<1> QED
  BY <1>1, Invariance, PTL

\* An event whose write returned Ok(seq) is in the file under that number for ever
\* (write_bus_event_with_ts, repair_incomplete_tail, copy_bus_events).
THEOREM AckedIsDurable == Spec => []AckedDurable
<1>1. IInv => AckedDurable
  BY DEF IInv
<1> QED
  BY <1>1, Invariance, PTL

\* What list_bus_events_page returned once stays readable under its number: no
\* repair takes back a line that a reader saw before its newline was written.
THEOREM ShownIsDurable == Spec => []ShownDurable
<1>1. IInv => ShownDurable
  BY DEF IInv
<1> QED
  BY <1>1, Invariance, PTL

-----------------------------------------------------------------------------
(* The log implements AppendLog.                                            *)

\* Only one file changes in a step.
LEMMA OneFile ==
    ASSUME IInv, [Next]_vars
    PROVE  \E r \in Runs : \A y \in Runs \ {r} : Same(y)
<1> USE EventLogAssumption
<1>1. ASSUME UNCHANGED <<log, tail>>
      PROVE  \E r \in Runs : \A y \in Runs \ {r} : Same(y)
  BY <1>1 DEF Same
<1>2. ASSUME NEW p \in Procs,
             \/ LockAndRepair(p) \/ Snapshot(p) \/ WriteFragment(p) \/ WriteLine(p)
             \/ WriteNewline(p)
      PROVE  \E r \in Runs : \A y \in Runs \ {r} : Same(y)
  <2>1. op[p].run \in Runs
    BY <1>2 DEF LockAndRepair, Snapshot, WriteFragment, WriteLine, WriteNewline, IInv,
       CallShape, Holding
  <2>2. \A y \in Runs \ {op[p].run} : Same(y)
    BY <1>2 DEF LockAndRepair, Snapshot, WriteFragment, WriteLine, WriteNewline, Repair,
       Same, IInv, TypeOK
  <2> QED
    BY <2>1, <2>2
<1>3. ASSUME NEW p \in Procs,
             CreateTarget(p) \/ CopyLine(p) \/ \E torn \in BOOLEAN : CopyFails(p, torn)
      PROVE  \E r \in Runs : \A y \in Runs \ {r} : Same(y)
  <2>1. op[p].to \in Runs
    BY <1>3 DEF CreateTarget, CopyLine, CopyFails, IInv, CallShape, Forking
  <2>2. \A y \in Runs \ {op[p].to} : Same(y)
    BY <1>3 DEF CreateTarget, CopyLine, CopyFails, Same, IInv, TypeOK
  <2> QED
    BY <2>1, <2>2
<1>4. CASE \E q \in Readers : ReaderNext(q)
  BY <1>1, <1>4, ReaderFrame
<1>5. ASSUME NEW p \in Procs,
              \/ \E r \in Runs, e \in Events : BeginWrite(p, r, e)
              \/ \E r, t \in Runs : BeginFork(p, r, t)
              \/ WriteFails(p) \/ OpenFails(p) \/ EndCopy(p)
      PROVE  UNCHANGED <<log, tail>>
  BY <1>5 DEF BeginWrite, BeginFork, WriteFails, OpenFails, EndCopy
<1>6. CASE Crash \/ UNCHANGED vars
  BY <1>1, <1>6 DEF Crash, vars
<1> QED
  BY <1>1, <1>2, <1>3, <1>4, <1>5, <1>6 DEF Next, ProcNext

\* An acknowledgement is for the line that has just been completed, which every
\* reader could already see.
LEMMA AckOfNewline ==
    ASSUME IInv, NEW p \in Procs, WriteNewline(p)
    PROVE  /\ \A y \in Runs : Visible(y)' = Visible(y)
           /\ \E r \in Runs : \E i \in DOMAIN Visible(r) :
                acked' = acked \cup {<<r, i, Visible(r)[i].ev>>}
<1>1. PICK r \in Runs : r = op[p].run
  BY DEF WriteNewline, IInv, CallShape, Holding
<1>2. /\ tail[r].st = "whole" /\ tail[r].ev = op[p].ev
      /\ writer[r].next = Len(log[r]) + 1
  BY <1>1 DEF WriteNewline, IInv, InsideFits, Appending
<1>3. log'[r] = Visible(r) /\ tail'[r].st = "none" /\ \A y \in Runs \ {r} : Same(y)
  BY <1>1 DEF WriteNewline, IInv, TypeOK, NoTail, Same
<1>4. \A y \in Runs : Visible(y)' = Visible(y)
  BY <1>3 DEF Visible, Same
<1>5. /\ Visible(r) \in Seq(Line) /\ Len(Visible(r)) = Len(log[r]) + 1
      /\ Visible(r)[Len(log[r]) + 1] = [seq |-> tail[r].seq, ev |-> tail[r].ev]
  BY <1>2, VisibleLines DEF IInv
<1>6. Len(log[r]) + 1 \in DOMAIN Visible(r)
  <2>1. log[r] \in Seq(Line) /\ DOMAIN Visible(r) = 1 .. Len(Visible(r))
    BY <1>5 DEF IInv, TypeOK
  <2> QED
    BY <1>5, <2>1
<1>7. acked' = acked \cup {<<r, Len(log[r]) + 1, Visible(r)[Len(log[r]) + 1].ev>>}
  BY <1>1, <1>2, <1>5 DEF WriteNewline
<1> QED
  BY <1>4, <1>6, <1>7

\* The event log is an append-only log: in every behaviour, what is parseable of
\* each file grows by one numbered event at a time and nothing is removed or
\* changed, and Ok is returned only for an event that is in the file.
THEOREM EventLogIsAppendOnly == Spec => AppendOnly
<1> DEFINE entries == [r \in Runs |-> Visible(r)]
<1>1. Init => Abstract!Init
  BY DEF Init, Abstract!Init, Visible, NoTail
<1>2. ASSUME IInv, [Next]_vars
      PROVE  [Abstract!Next]_<<entries, acked>>
  <2>1. ASSUME NEW p \in Procs, WriteNewline(p)
        PROVE  Abstract!Next
    <3>1. entries' = entries
      BY <1>2, <2>1, AckOfNewline
    <3>2. PICK r \in Runs : \E i \in DOMAIN Visible(r) :
                acked' = acked \cup {<<r, i, Visible(r)[i].ev>>}
      BY <1>2, <2>1, AckOfNewline
    <3>3. PICK i \in DOMAIN Visible(r) : acked' = acked \cup {<<r, i, Visible(r)[i].ev>>}
      BY <3>2
    <3>4. entries[r] = Visible(r)
      OBVIOUS
    <3> QED
      BY <3>1, <3>3, <3>4 DEF Abstract!Next, Abstract!Acknowledge
  <2>2. ASSUME acked' = acked
        PROVE  Abstract!Next \/ entries' = entries
    <3>1. PICK r \in Runs : \A y \in Runs \ {r} : Same(y)
      BY <1>2, OneFile
    <3>2. \A y \in Runs \ {r} : Visible(y)' = Visible(y)
      BY <3>1 DEF Visible, Same
    <3>3. CASE Visible(r)' = Visible(r)
      BY <3>2, <3>3
    <3>4. ASSUME NEW e \in Events,
                 Visible(r)' = Append(Visible(r), [seq |-> Len(Visible(r)) + 1, ev |-> e])
          PROVE  Abstract!Next
      <4>1. entries' = [entries EXCEPT ![r] =
                            Append(@, [seq |-> Len(@) + 1, ev |-> e])]
        BY <3>2, <3>4
      <4> QED
        BY <2>2, <4>1 DEF Abstract!Next, Abstract!Append1
    <3> QED
      BY <1>2, <3>3, <3>4, FileSteps, FileGrows
  <2>3. acked' = acked \/ \E p \in Procs : WriteNewline(p)
    BY <1>2, ReaderFrame DEF Next, ProcNext, vars, Crash, BeginWrite, LockAndRepair,
       WriteFragment, WriteLine, WriteFails, OpenFails, BeginFork, Snapshot, CreateTarget,
       CopyLine, EndCopy, CopyFails
  <2> QED
    BY <2>1, <2>2, <2>3
<1> QED
  BY <1>1, <1>2, Invariance, PTL DEF Spec, AppendOnly, Abstract!Spec

-----------------------------------------------------------------------------
(* Reads and forks.  Both speak of what was acknowledged when a call began,  *)
(* while other calls go on writing to the same file.                        *)

\* What a page must hold is committed, replayable and beyond its watermark.
DueCommitted == \A q \in Readers : \A s \in rd[q].due :
    /\ rd[q].run \in Runs /\ s \in 1 .. Len(log[rd[q].run])
    /\ s > rd[q].since /\ log[rd[q].run][s].ev \in Replay

\* A reader that consumed the beginning of a line is behind everything that was
\* committed when it opened the file: what it will skip is owed to nobody.
GarbledPast == \A q \in Readers : rd[q].garbled => \A s \in rd[q].due : s <= rd[q].pos

ReadInv == DueCommitted /\ GarbledPast /\ CatchUpComplete

\* A committed line stays committed.
LEMMA LinesStay ==
    ASSUME IInv, [Next]_vars, NEW r \in Runs, NEW i \in 1 .. Len(log[r])
    PROVE  i \in 1 .. Len(log'[r]) /\ log'[r][i] = log[r][i]
<1>1. Len(log[r]) <= Len(log'[r]) /\ \A j \in 1 .. Len(log[r]) : log'[r][j] = log[r][j]
  BY FileSteps, FileGrows
<1>2. Len(log[r]) \in Nat /\ Len(log'[r]) \in Nat
  BY TypeOKStep DEF IInv, TypeOK
<1> QED
  BY <1>1, <1>2

\* One reader, of the conjuncts above.
ReaderDue(q) ==
    /\ \A s \in rd[q].due :
        /\ rd[q].run \in Runs /\ s \in 1 .. Len(log[rd[q].run])
        /\ s > rd[q].since /\ log[rd[q].run][s].ev \in Replay
    /\ rd[q].garbled => \A s \in rd[q].due : s <= rd[q].pos
    /\ \A s \in rd[q].due : s <= rd[q].pos => s \in rd[q].got

LEMMA ReadInvIsDue == ReadInv <=> \A q \in Readers : ReaderDue(q)
BY DEF ReadInv, DueCommitted, GarbledPast, CatchUpComplete, ReaderDue

\* A reader that another step leaves alone keeps what it has.
LEMMA DueOfOthers ==
    ASSUME IInv, [Next]_vars, NEW q \in Readers, ReaderDue(q), rd'[q] = rd[q]
    PROVE  ReaderDue(q)'
<1>1. \A s \in rd[q].due : s \in 1 .. Len(log'[rd[q].run])
                            /\ log'[rd[q].run][s] = log[rd[q].run][s]
  BY LinesStay DEF ReaderDue
<1> QED
  BY <1>1 DEF ReaderDue

\* A reader that stops has nothing left to return.
LEMMA DueOfNothing ==
    ASSUME NEW q \in Readers, rd'[q] = NotReading
    PROVE  ReaderDue(q)'
BY DEF ReaderDue, NotReading

LEMMA DueOfBeginRead ==
    ASSUME IInv, NEW q \in Readers, NEW r \in Runs, NEW since \in 0 .. Len(log[r]),
           BeginRead(q, r, since)
    PROVE  ReaderDue(q)'
<1>1. /\ rd'[q].run = r /\ rd'[q].since = since /\ rd'[q].pos = 0 /\ rd'[q].got = {}
      /\ ~rd'[q].garbled /\ rd'[q].due = Due(r, since) /\ log' = log
  BY DEF BeginRead, IInv, TypeOK
<1>2. log[r] \in Seq(Line)
  BY DEF IInv, TypeOK
<1>3. \A s \in Due(r, since) :
        s \in 1 .. Len(log[r]) /\ s > since /\ log[r][s].ev \in Replay
  BY <1>2 DEF Due, IInv, AckedDurable
<1>4. \A s \in Due(r, since) : ~(s <= 0)
  BY <1>3
<1> QED
  BY <1>1, <1>3, <1>4 DEF ReaderDue

\* The line behind the reader's position bears the next number: if it is owed, it
\* is beyond the watermark and replayable, and it is returned.
LEMMA DueOfReadLine ==
    ASSUME IInv, NEW q \in Readers, ReaderDue(q), ReadLine(q)
    PROVE  ReaderDue(q)'
<1>0. rd[q] \in Reads /\ rd \in [Readers -> Reads] /\ log' = log
  BY DEF IInv, TypeOK, ReadLine
<1>1. PICK r \in Runs, pos \in Nat : r = rd[q].run /\ pos = rd[q].pos
  BY <1>0 DEF ReadLine, IInv, ReadShape, Reads
<1>2. /\ log[r] \in Seq(Line) /\ pos + 1 \in 1 .. Len(log[r])
      /\ log[r][pos + 1].seq = pos + 1
  <2>1. log[r] \in Seq(Line) /\ pos < Len(log[r])
    BY <1>1 DEF ReadLine, IInv, TypeOK
  <2> QED
    BY <2>1 DEF IInv, Dense
<1>3. /\ rd'[q].run = r /\ rd'[q].since = rd[q].since /\ rd'[q].due = rd[q].due
      /\ rd'[q].pos = pos + 1
  BY <1>0, <1>1 DEF ReadLine, Deliver, Reads
<1>4. CASE rd[q].garbled
  <2>1. ~rd'[q].garbled /\ rd'[q].got = rd[q].got
    BY <1>0, <1>4 DEF ReadLine, Reads
  <2>2. \A s \in rd[q].due : s <= pos /\ s \in rd[q].got
    BY <1>1, <1>4 DEF ReaderDue
  <2> QED
    BY <1>0, <1>1, <1>3, <2>1, <2>2 DEF ReaderDue
<1>5. CASE ~rd[q].garbled
  <2> DEFINE line == log[r][pos + 1]
  <2>1. Deliver(q, line) /\ ~rd'[q].garbled
    BY <1>0, <1>1, <1>5 DEF ReadLine, Deliver, Reads
  <2>2. rd[q].got \subseteq rd'[q].got
    BY <1>0, <2>1 DEF Deliver, Reads
  <2>3. line.seq > rd[q].since /\ line.ev \in Replay => pos + 1 \in rd'[q].got
    BY <1>0, <1>2, <2>1 DEF Deliver, Reads
  <2>4. ASSUME NEW s \in rd[q].due, s <= pos + 1
        PROVE  s \in rd'[q].got
    <3>1. s \in Nat /\ s > rd[q].since /\ log[r][s].ev \in Replay
      BY <1>1 DEF ReaderDue
    <3>2. CASE s <= pos
      BY <1>1, <2>2, <3>2 DEF ReaderDue
    <3>3. CASE s = pos + 1
      BY <1>2, <2>3, <3>1, <3>3
    <3> QED
      BY <1>1, <2>4, <3>1, <3>2, <3>3
  <2> QED
    BY <1>0, <1>1, <1>3, <2>1, <2>4 DEF ReaderDue
<1> QED
  BY <1>4, <1>5

\* At the tail the reader has passed every line that was committed before.
LEMMA DueOfReadFragment ==
    ASSUME IInv, NEW q \in Readers, ReaderDue(q), ReadFragment(q)
    PROVE  ReaderDue(q)'
<1>0. rd[q] \in Reads /\ rd \in [Readers -> Reads] /\ log' = log
  BY DEF IInv, TypeOK, ReadFragment
<1>1. /\ rd'[q].run = rd[q].run /\ rd'[q].since = rd[q].since /\ rd'[q].due = rd[q].due
      /\ rd'[q].pos = rd[q].pos /\ rd'[q].got = rd[q].got
  BY <1>0 DEF ReadFragment, Reads
<1>2. \A s \in rd[q].due : s <= rd[q].pos
  <2>1. rd[q].run \in Runs /\ rd[q].pos >= Len(log[rd[q].run]) /\ rd[q].pos \in Nat
    BY <1>0 DEF ReadFragment, AtTail, IInv, ReadShape, Reads
  <2>2. Len(log[rd[q].run]) \in Nat
    BY <2>1 DEF IInv, TypeOK
  <2> QED
    BY <2>1, <2>2 DEF ReaderDue
<1> QED
  BY <1>0, <1>1, <1>2 DEF ReaderDue

LEMMA ReadInvStep == ASSUME IInv, ReadInv, [Next]_vars PROVE ReadInv'
<1>1. \A q \in Readers : ReaderDue(q)
  BY ReadInvIsDue
<1>2. ASSUME NEW q \in Readers
      PROVE  ReaderDue(q)'
  <2>1. CASE rd'[q] = rd[q]
    BY <1>1, <2>1, DueOfOthers
  <2>2. CASE Crash
    BY <2>2, DueOfNothing DEF Crash
  <2>3. ASSUME NEW x \in Readers, ReaderNext(x)
        PROVE  ReaderDue(q)'
    <3>0. rd \in [Readers -> Reads]
      BY DEF IInv, TypeOK
    <3>1. CASE x # q
      <4>1. rd'[q] = rd[q]
        BY <3>0, <2>3, <3>1 DEF ReaderNext, BeginRead, ReadLine, Deliver, ReadOversized,
           ReadWholeTail, ReadFragment, EndRead
      <4> QED
        BY <2>1, <4>1
    <3>2. CASE x = q
      <4>1. CASE ReadOversized(q) \/ ReadWholeTail(q) \/ EndRead(q)
        <5>1. rd'[q] = NotReading
          BY <3>0, <4>1 DEF ReadOversized, ReadWholeTail, EndRead
        <5> QED
          BY <5>1, DueOfNothing
      <4> QED
        BY <1>1, <2>3, <3>2, <4>1, DueOfBeginRead, DueOfReadLine, DueOfReadFragment
           DEF ReaderNext
    <3> QED
      BY <3>1, <3>2
  <2>4. rd' = rd \/ Crash \/ \E x \in Readers : ReaderNext(x)
    BY DEF Next, ProcNext, vars, BeginWrite, LockAndRepair, WriteFragment, WriteLine,
       WriteNewline, WriteFails, OpenFails, BeginFork, Snapshot, CreateTarget, CopyLine,
       EndCopy, CopyFails
  <2> QED
    BY <2>1, <2>2, <2>3, <2>4
<1> QED
  BY <1>2 DEF ReadInv, DueCommitted, GarbledPast, CatchUpComplete, ReaderDue

\* list_bus_events_page returns every replayable event beyond the watermark that
\* was acknowledged before the page was opened, up to the line it has reached,
\* whatever is written, repaired, torn or copied under the reader's eyes.
THEOREM CatchUpIsComplete == Spec => []CatchUpComplete
<1>1. Init => ReadInv
  BY DEF Init, ReadInv, DueCommitted, GarbledPast, CatchUpComplete, NotReading
<1>2. IInv /\ ReadInv /\ [Next]_vars => ReadInv'
  BY ReadInvStep
<1>3. ReadInv => CatchUpComplete
  BY DEF ReadInv
<1> QED
  BY <1>1, <1>2, <1>3, Invariance, PTL DEF Spec

-----------------------------------------------------------------------------
(* Forks.                                                                   *)

Evs(lines) == {lines[i].ev : i \in DOMAIN lines}

\* What a fork owes its user moves with the copy: it is in the parent's log, then
\* in the prefix that was read, then in the part of it that is already copied or
\* in the part that is still to be.
Carried(p) ==
    /\ op[p].at = "snapshot" => owed[op[p].to] \subseteq Evs(log[op[p].run])
    /\ op[p].at = "target" => owed[op[p].to] \subseteq Evs(op[p].rest)
    /\ op[p].at = "copy" =>
        owed[op[p].to] \subseteq Evs(log[op[p].to]) \cup Evs(op[p].rest)

ForkInv ==
    /\ forked \subseteq created
    /\ \A t \in Runs : owed[t] \subseteq Content
    /\ \A p \in Procs : Carried(p)
    /\ ForkComplete

\* The events of a log stay in it.
LEMMA EventsStay ==
    ASSUME IInv, [Next]_vars, NEW r \in Runs
    PROVE  Evs(log[r]) \subseteq Evs(log'[r])
<1>1. log[r] \in Seq(Line) /\ log'[r] \in Seq(Line)
  BY TypeOKStep DEF IInv, TypeOK
<1>2. DOMAIN log[r] = 1 .. Len(log[r]) /\ DOMAIN log'[r] = 1 .. Len(log'[r])
  BY <1>1
<1>3. \A i \in 1 .. Len(log[r]) : i \in 1 .. Len(log'[r]) /\ log'[r][i] = log[r][i]
  BY LinesStay
<1> QED
  BY <1>2, <1>3 DEF Evs

\* The events of a sequence of lines are that of the first and those of the rest.
LEMMA EvsOfParts ==
    ASSUME NEW lines \in Seq(Line), lines # <<>>
    PROVE  Evs(lines) \subseteq {Head(lines).ev} \cup Evs(Tail(lines))
<1>1. Tail(lines) \in Seq(Line) /\ Len(Tail(lines)) = Len(lines) - 1 /\ Len(lines) \in Nat \ {0}
      /\ \A i \in 1 .. Len(Tail(lines)) : Tail(lines)[i] = lines[i + 1]
  BY HeadTailProperties
<1>2. Head(lines) = lines[1]
  OBVIOUS
<1>3. DOMAIN lines = 1 .. Len(lines) /\ DOMAIN Tail(lines) = 1 .. Len(Tail(lines))
  BY <1>1
<1>4. ASSUME NEW i \in 1 .. Len(lines), i # 1
      PROVE  lines[i].ev \in Evs(Tail(lines))
  <2>1. i - 1 \in 1 .. Len(Tail(lines)) /\ Tail(lines)[i - 1] = lines[i]
    BY <1>1, <1>4
  <2> QED
    BY <1>3, <2>1 DEF Evs
<1> QED
  BY <1>2, <1>3, <1>4 DEF Evs

\* Another call's step, or a reader's, leaves what a copy carries in place.
LEMMA CarriedByOthers ==
    ASSUME IInv, [Next]_vars, NEW p \in Procs, Carried(p), op'[p] = op[p],
           op[p].to \in Runs => owed'[op[p].to] = owed[op[p].to]
    PROVE  Carried(p)'
<1>1. op[p].at \in Forking => op[p].to \in Runs
  BY DEF IInv, CallShape
<1>2. op[p].at = "snapshot" => op[p].run \in Runs
  BY DEF IInv, CallShape
<1>3. op[p].at = "snapshot" => Evs(log[op[p].run]) \subseteq Evs(log'[op[p].run])
  BY <1>2, EventsStay
<1>4. op[p].at = "copy" => Evs(log[op[p].to]) \subseteq Evs(log'[op[p].to])
  BY <1>1, EventsStay DEF Forking
<1> QED
  BY <1>1, <1>3, <1>4 DEF Carried, Forking, Evs

\* What is acknowledged on the parent is in its log when the copy is ordered.
LEMMA CarriedOfBeginFork ==
    ASSUME IInv, NEW p \in Procs, NEW r \in Runs, NEW t \in Runs, BeginFork(p, r, t)
    PROVE  Carried(p)' /\ owed'[t] \subseteq Content
<1>1. op'[p] = Call("snapshot", r, NoEvent, t) /\ log' = log
  BY DEF BeginFork, IInv, TypeOK
<1>2. owed'[t] = {a[3] : a \in {b \in acked : b[1] = r}} \cap Content
  BY DEF BeginFork, IInv, TypeOK
<1>3. \A a \in acked : a[1] = r => a[3] \in Evs(log[r])
  BY DEF IInv, AckedDurable, Evs
<1> QED
  BY <1>1, <1>2, <1>3 DEF Carried, Call

\* The prefix that is read holds every committed line.
LEMMA CarriedOfSnapshot ==
    ASSUME IInv, NEW p \in Procs, Carried(p), Snapshot(p)
    PROVE  Carried(p)'
<1>1. PICK r \in Runs : r = op[p].run
  BY DEF Snapshot, IInv, CallShape
<1>2. /\ op'[p].at = "target" /\ op'[p].to = op[p].to /\ op'[p].rest = Visible(r)
      /\ owed' = owed
  BY <1>1 DEF Snapshot, IInv, TypeOK, Calls
<1>3. Evs(log[r]) \subseteq Evs(Visible(r))
  <2>1. log[r] \in Seq(Line) /\ Visible(r) \in Seq(Line)
    BY VisibleLines DEF IInv, TypeOK
  <2>2. /\ Len(Visible(r)) \in {Len(log[r]), Len(log[r]) + 1}
        /\ \A i \in 1 .. Len(log[r]) : Visible(r)[i] = log[r][i]
    BY VisibleLines DEF IInv
  <2>3. DOMAIN log[r] = 1 .. Len(log[r]) /\ DOMAIN Visible(r) = 1 .. Len(Visible(r))
    BY <2>1
  <2>4. \A i \in 1 .. Len(log[r]) : i \in 1 .. Len(Visible(r))
    BY <2>1, <2>2
  <2> QED
    BY <2>2, <2>3, <2>4 DEF Evs
<1> QED
  BY <1>1, <1>2, <1>3 DEF Carried, Snapshot

LEMMA CarriedOfCreateTarget ==
    ASSUME IInv, NEW p \in Procs, Carried(p), CreateTarget(p)
    PROVE  Carried(p)'
<1>1. /\ op'[p].at = "copy" /\ op'[p].to = op[p].to /\ op'[p].rest = op[p].rest
      /\ owed' = owed
  BY DEF CreateTarget, IInv, TypeOK, Calls
<1> QED
  BY <1>1 DEF Carried, CreateTarget

\* A content line moves from the rest to the fork's file; no other is owed.
LEMMA CarriedOfCopyLine ==
    ASSUME IInv, NEW p \in Procs, Carried(p), CopyLine(p),
           \A t \in Runs : owed[t] \subseteq Content
    PROVE  Carried(p)'
<1>1. PICK t \in Runs : t = op[p].to
  BY DEF CopyLine, IInv, CallShape, Forking
<1>2. op[p].rest \in Seq(Line) /\ op[p].rest # <<>> /\ log[t] \in Seq(Line)
  BY DEF CopyLine, IInv, TypeOK, Calls
<1>3. /\ op'[p].at = "copy" /\ op'[p].to = t /\ op'[p].rest = Tail(op[p].rest)
      /\ owed' = owed /\ op[p].at = "copy"
  BY <1>1 DEF CopyLine, IInv, TypeOK, Calls
<1> DEFINE head == Head(op[p].rest)
           line == [seq |-> Len(log[t]) + 1, ev |-> head.ev]
<1>4. owed[t] \subseteq Evs(log[t]) \cup {head.ev} \cup Evs(Tail(op[p].rest))
  BY <1>1, <1>2, <1>3, EvsOfParts DEF Carried
<1>5. CASE head.ev \in Content
  <2>1. log'[t] = Append(log[t], line)
    BY <1>1, <1>5 DEF CopyLine, IInv, TypeOK
  <2>2. line \in Line
    <3>1. Head(op[p].rest) \in Line
      BY <1>2, HeadTailProperties
    <3> QED
      BY <1>2, <3>1 DEF Line
  <2>3. Len(log[t]) \in Nat
    BY <1>2
  <2> HIDE DEF line, head
  <2>4. /\ \A i \in 1 .. Len(log[t]) : i \in DOMAIN log'[t] /\ log'[t][i] = log[t][i]
        /\ Len(log[t]) + 1 \in DOMAIN log'[t] /\ log'[t][Len(log[t]) + 1] = line
    BY <1>2, <2>1, <2>2, <2>3, AppendProperties
  <2>5. Evs(log[t]) \subseteq Evs(log'[t])
    BY <1>2, <2>4 DEF Evs
  <2>6. line.ev \in Evs(log'[t])
    BY <2>4 DEF Evs
  <2>7. line.ev = head.ev
    BY DEF line
  <2> QED
    BY <1>3, <1>4, <2>5, <2>6, <2>7 DEF Carried
<1>6. CASE head.ev \notin Content
  <2>1. log' = log
    BY <1>1, <1>6 DEF CopyLine
  <2>2. head.ev \notin owed[t]
    BY <1>6
  <2> QED
    BY <1>3, <1>4, <2>1, <2>2 DEF Carried
<1> QED
  BY <1>5, <1>6

LEMMA CarriedOfNothing ==
    ASSUME NEW p \in Procs, op'[p].at \notin Forking
    PROVE  Carried(p)'
BY DEF Carried, Forking

\* The call that takes a step.
LEMMA CarriedByOwn ==
    ASSUME IInv, ForkInv, NEW p \in Procs, ProcNext(p)
    PROVE  Carried(p)'
<1>1. ASSUME NEW r \in Runs, NEW e \in Events, BeginWrite(p, r, e)
      PROVE  Carried(p)'
  BY <1>1, CarriedOfNothing DEF BeginWrite, Call, Forking, IInv, TypeOK
<1>2. ASSUME LockAndRepair(p) \/ WriteFragment(p) \/ WriteLine(p)
      PROVE  Carried(p)'
  BY <1>2, CallEffects, CarriedOfNothing DEF Moved, Forking
<1>3. ASSUME WriteNewline(p) \/ WriteFails(p) \/ OpenFails(p) \/ EndCopy(p)
                \/ \E torn \in BOOLEAN : CopyFails(p, torn)
      PROVE  Carried(p)'
  BY <1>3, CarriedOfNothing, IdleCall DEF WriteNewline, WriteFails, OpenFails, EndCopy, CopyFails,
     Release, Forking, IInv, TypeOK
<1> QED
  BY <1>1, <1>2, <1>3, CarriedOfBeginFork, CarriedOfSnapshot, CarriedOfCreateTarget,
     CarriedOfCopyLine DEF ProcNext, ForkInv

\* Nobody but the call that creates a run changes what the run is owed.
LEMMA OwedStays ==
    ASSUME [Next]_vars
    PROVE  \/ owed' = owed /\ created' = created
           \/ \E p \in Procs, r, t \in Runs : BeginFork(p, r, t)
BY DEF Next, ProcNext, ReaderNext, vars, BeginWrite, LockAndRepair, WriteFragment, WriteLine,
   WriteNewline, WriteFails, OpenFails, Snapshot, CreateTarget, CopyLine, EndCopy, CopyFails,
   BeginRead, ReadLine, ReadOversized, ReadWholeTail, ReadFragment, EndRead, Crash

LEMMA OwedOfCreated ==
    ASSUME IInv, [Next]_vars
    PROVE  created \subseteq created' /\ \A t \in created : owed'[t] = owed[t]
<1>1. ASSUME NEW p \in Procs, NEW r \in Runs, NEW t \in Runs, BeginFork(p, r, t)
      PROVE  created \subseteq created' /\ \A x \in created : owed'[x] = owed[x]
  BY <1>1 DEF BeginFork, IInv, TypeOK
<1> QED
  BY <1>1, OwedStays

LEMMA OtherCalls ==
    ASSUME IInv, NEW p \in Procs, ProcNext(p), NEW x \in Procs \ {p}
    PROVE  op'[x] = op[x]
BY DEF ProcNext, BeginWrite, LockAndRepair, WriteFragment, WriteLine, WriteNewline, WriteFails,
   OpenFails, BeginFork, Snapshot, CreateTarget, CopyLine, EndCopy, CopyFails, Release, IInv,
   TypeOK

LEMMA CarriedStep == ASSUME IInv, ForkInv, [Next]_vars, NEW p \in Procs PROVE Carried(p)'
<1>1. op[p].to \in Runs => owed'[op[p].to] = owed[op[p].to]
  BY OwedOfCreated DEF IInv, ForkPrivate, CallsOnCreated
<1>2. CASE op'[p] = op[p]
  BY <1>1, <1>2, CarriedByOthers DEF ForkInv
<1>3. CASE Crash
  BY <1>3, CrashEffects, CarriedOfNothing DEF Forking
<1>4. ASSUME NEW x \in Procs, ProcNext(x)
      PROVE  Carried(p)'
  BY <1>2, <1>4, CarriedByOwn, OtherCalls
<1>5. CASE (\E q \in Readers : ReaderNext(q)) \/ UNCHANGED vars
  BY <1>2, <1>5, ReaderFrame DEF vars
<1> QED
  BY <1>3, <1>4, <1>5 DEF Next

\* A run enters forked when nothing is left to copy, and its log only grows.
LEMMA ForkCompleteStep ==
    ASSUME IInv, ForkInv, [Next]_vars
    PROVE  forked' \subseteq created' /\ ForkComplete'
<1>1. ASSUME NEW t \in forked
      PROVE  t \in created' /\ owed'[t] \subseteq Evs(log'[t])
  <2>1. t \in created /\ t \in Runs /\ owed[t] \subseteq Evs(log[t])
    BY <1>1 DEF ForkInv, ForkComplete, Evs, IInv, TypeOK
  <2> QED
    BY <2>1, OwedOfCreated, EventsStay
<1>2. ASSUME NEW p \in Procs, EndCopy(p)
      PROVE  forked' \subseteq created' /\ ForkComplete'
  <2>1. PICK t \in Runs : t = op[p].to
    BY <1>2 DEF EndCopy, IInv, CallShape, Forking
  <2>2. op[p].at = "copy" /\ op[p].rest = <<>> /\ t \in created
    BY <1>2, <2>1 DEF EndCopy, IInv, ForkPrivate, CallsOnCreated
  <2>3. Evs(op[p].rest) = {}
    BY <2>2 DEF Evs
  <2>4. owed[t] \subseteq Evs(log[t])
    BY <2>1, <2>2, <2>3 DEF ForkInv, Carried
  <2>5. UNCHANGED <<log, owed, created>> /\ forked' = forked \cup {t}
    BY <1>2, <2>1 DEF EndCopy
  <2> QED
    BY <1>1, <2>2, <2>4, <2>5 DEF ForkComplete, Evs
<1>3. forked' = forked \/ \E p \in Procs : EndCopy(p)
  BY DEF Next, ProcNext, ReaderNext, vars, BeginWrite, LockAndRepair, WriteFragment, WriteLine,
     WriteNewline, WriteFails, OpenFails, BeginFork, Snapshot, CreateTarget, CopyLine, CopyFails,
     BeginRead, ReadLine, ReadOversized, ReadWholeTail, ReadFragment, EndRead, Crash
<1> QED
  BY <1>1, <1>2, <1>3 DEF ForkComplete, Evs

LEMMA ForkInvStep == ASSUME IInv, ForkInv, [Next]_vars PROVE ForkInv'
<1>1. ASSUME NEW t \in Runs
      PROVE  owed'[t] \subseteq Content
  <2>1. CASE owed' = owed
    BY <2>1 DEF ForkInv
  <2>2. ASSUME NEW p \in Procs, NEW r \in Runs, NEW x \in Runs, BeginFork(p, r, x)
        PROVE  owed'[t] \subseteq Content
    BY <2>2 DEF BeginFork, ForkInv, IInv, TypeOK
  <2> QED
    BY <2>1, <2>2, OwedStays
<1> QED
  BY <1>1, CarriedStep, ForkCompleteStep DEF ForkInv

\* A fork whose copy returned Ok holds every content event that was acknowledged on
\* its parent before the call (fork_session, copy_bus_events), although the parent's
\* writers are never stopped and the entry map may be collected meanwhile.
THEOREM ForkIsComplete == Spec => []ForkComplete
<1>1. Init => ForkInv
  BY DEF Init, ForkInv, ForkComplete, Carried, Idle, Call
<1>2. IInv /\ ForkInv /\ [Next]_vars => ForkInv'
  BY ForkInvStep
<1>3. ForkInv => ForkComplete
  BY DEF ForkInv
<1> QED
  BY <1>1, <1>2, <1>3, Invariance, PTL DEF Spec

\* Whoever reads a log while it grows, a client that catches up or a fork, has
\* all that was acknowledged before it began, although no reader takes a lock.
THEOREM ReadsAreComplete == Spec => []ReadsComplete
<1>1. CatchUpComplete /\ ForkComplete => ReadsComplete
  BY DEF ReadsComplete
<1> QED
  BY <1>1, CatchUpIsComplete, ForkIsComplete, PTL
=============================================================================
