------------------------------ MODULE EventLog ------------------------------
(***************************************************************************)
(* The per-run event log of storage/events.rs: `EventWriter`, the process- *)
(* wide singleton that allocates a sequence number and appends one JSONL   *)
(* line under a per-run mutex; the repair of a torn last line; the garbage *)
(* collection of the writer map; the copy that seeds a forked run; and the *)
(* readers, which take no lock at all.                                     *)
(*                                                                         *)
(* A line is a record [seq, ev].  What a file holds is split in two:       *)
(* log[r], the lines that end in a newline, and tail[r], the bytes after   *)
(* the last newline: none, a fragment that does not parse ("torn"), or a   *)
(* complete JSON value whose newline is missing ("whole").                 *)
(***************************************************************************)
EXTENDS Naturals, Sequences, FiniteSets

CONSTANTS
    Runs,       \* run ids
    Root,       \* the run that exists from the start; the others are forks
    Procs,      \* tasks that write: actor, stderr pump, command handlers
    Readers,    \* callers of list_bus_events_page
    Events,     \* payloads; each is handed to the writer at most once
    Content,    \* payloads of the types a fork copies (CONTENT_TYPES)
    Replay,     \* payloads of the types a reader returns (REPLAY_TYPES)
    Big,        \* payloads whose line is longer than the 4 KiB seed window
    Oversized,  \* payloads beyond the catch-up limits of a page
    MapLimit,   \* the writer map is collected above this many entries (50)
    MaxFaults,  \* bound: I/O errors
    MaxCrashes, \* bound: process crashes
    NoProc, NoEvent, NoRun

ASSUME EventLogAssumption ==
    /\ Root \in Runs
    /\ Content \subseteq Replay /\ Replay \subseteq Events
    /\ Big \subseteq Events /\ Oversized \subseteq Big
    /\ NoProc \notin Procs /\ NoEvent \notin Events /\ NoRun \notin Runs
    /\ MapLimit \in Nat /\ MaxFaults \in Nat /\ MaxCrashes \in Nat

VARIABLES
    log,      \* log[r]: the committed lines of the file
    tail,     \* tail[r]: the bytes after the last newline
    writer,   \* writer[r]: the map entry RunWriterState, present or not
    holder,   \* holder[r]: who holds the run's mutex
    op,       \* op[p]: the call p is executing
    rd,       \* rd[q]: the read q is executing
    issued,   \* history: events handed to the writer
    acked,    \* history: <<run, seq, event>> a call returned Ok for
    shown,    \* history: <<run, seq, event>> a reader returned
    created,  \* runs whose directory exists
    owed,     \* history: owed[t]: content acknowledged on the parent before fork t
    forked,   \* history: runs whose copy completed
    faults, crashes

vars == <<log, tail, writer, holder, op, rd, issued, acked, shown, created,
          owed, forked, faults, crashes>>

-----------------------------------------------------------------------------
Line == [seq : Nat, ev : Events]
NoTail == [st |-> "none", seq |-> 0, ev |-> NoEvent]
TailBytes == [st : {"none", "torn", "whole"}, seq : Nat, ev : Events \cup {NoEvent}]

\* RunWriterState, and whether the map has one for the run.
Entries == [present : BOOLEAN, next : Nat, repaired : BOOLEAN]
Absent == [present |-> FALSE, next |-> 0, repaired |-> FALSE]

\* A call of the writer: the step it has reached, its run, its event, the fork it
\* copies to, and what is left to copy.
Calls == [at : {"idle", "handle", "locked", "line", "newline", "snapshot", "target", "copy"},
          run : Runs \cup {NoRun}, ev : Events \cup {NoEvent}, to : Runs \cup {NoRun},
          rest : Seq(Line)]
Call(at, r, e, t) == [at |-> at, run |-> r, ev |-> e, to |-> t, rest |-> <<>>]
Idle == Call("idle", NoRun, NoEvent, NoRun)

\* A page read: the watermark, the lines consumed, whether the beginning of the
\* next one was consumed as a fragment, what was returned and what had to be.
Reads == [at : {"idle", "reading"}, run : Runs \cup {NoRun}, since : Nat, pos : Nat,
          garbled : BOOLEAN, got : SUBSET Nat, due : SUBSET Nat]
NotReading == [at |-> "idle", run |-> NoRun, since |-> 0, pos |-> 0,
               garbled |-> FALSE, got |-> {}, due |-> {}]

\* Every line a parser can read: the committed ones, and a whole tail.
Visible(r) ==
    IF tail[r].st = "whole"
    THEN Append(log[r], [seq |-> tail[r].seq, ev |-> tail[r].ev])
    ELSE log[r]

\* max() of scan_max_seq over a non-empty set of line numbers.
MaxSeq(lines, idx) ==
    CHOOSE n \in {lines[i].seq : i \in idx} : \A i \in idx : lines[i].seq <= n

\* The lines that lie entirely in the last 4 KiB: those behind the last long one.
Window(lines) ==
    {i \in DOMAIN lines : \A j \in i .. Len(lines) : lines[j].ev \notin Big}

\* next_seq: the tail window if it holds a parseable line, else a full scan, else 1.
NextSeqOf(lines, window) ==
    IF window # {} THEN MaxSeq(lines, window) + 1
    ELSE IF lines # <<>> THEN MaxSeq(lines, DOMAIN lines) + 1
    ELSE 1

NextSeq(r) ==
    NextSeqOf(Visible(r), IF tail[r].st = "torn" /\ tail[r].ev \in Big THEN {}
                          ELSE Window(Visible(r)))

-----------------------------------------------------------------------------
Init ==
    /\ log = [r \in Runs |-> <<>>]
    /\ tail = [r \in Runs |-> NoTail]
    /\ writer = [r \in Runs |-> Absent]
    /\ holder = [r \in Runs |-> NoProc]
    /\ op = [p \in Procs |-> Idle]
    /\ rd = [q \in Readers |-> NotReading]
    /\ issued = {} /\ acked = {} /\ shown = {}
    /\ created = {Root}
    /\ owed = [r \in Runs |-> {}]
    /\ forked = {}
    /\ faults = 0 /\ crashes = 0

\* Somebody other than the map holds the Arc of run r (strong_count > 1).
Referenced(r) == \E p \in Procs : op[p].run = r

\* The map after run_lock(r): collected when it is too long, r's entry created
\* with the number next_seq reads from the file.
RunLock(r) ==
    LET present == {x \in Runs : writer[x].present}
        kept == IF Cardinality(present) > MapLimit
                THEN {x \in present : Referenced(x)} ELSE present
    IN  [x \in Runs |->
            IF x \in kept THEN writer[x]
            ELSE IF x = r THEN [present |-> TRUE, next |-> NextSeq(r), repaired |-> FALSE]
            ELSE Absent]

\* Mutant: a whole tail is thrown away like a torn one.
RepairTruncatesWhole(r) ==
    /\ tail' = [tail EXCEPT ![r] = NoTail]
    /\ UNCHANGED log

\* Mutant: the scan for the last newline starts one byte too early, and a file
\* that needs no repair loses its last line.
RepairTruncatesLast(r) ==
    /\ log' = [log EXCEPT ![r] =
            IF tail[r] = NoTail /\ @ # <<>> THEN SubSeq(@, 1, Len(@) - 1) ELSE Visible(r)]
    /\ tail' = [tail EXCEPT ![r] = NoTail]

\* Mutant: whatever follows the last newline is closed with one, even nothing.
RepairAlwaysCompletes(r) ==
    /\ log' = [log EXCEPT ![r] = Append(@, [seq |-> tail[r].seq, ev |-> tail[r].ev])]
    /\ tail' = [tail EXCEPT ![r] = NoTail]

\* The file after repair_incomplete_tail: a whole tail gets its newline, a torn
\* one is truncated.  The parseable lines stay what they were.
Repair(r) ==
    /\ log' = [log EXCEPT ![r] = Visible(r)]
    /\ tail' = [tail EXCEPT ![r] = NoTail]

\* Mutant: the number in the entry is kept although the repair completed a line.
ReseededStale(r) == [writer EXCEPT ![r].present = TRUE, ![r].repaired = TRUE]

\* ensure_tail_repaired: the entry is seeded again from the repaired file.
Reseeded(r) ==
    IF writer[r].repaired THEN writer
    ELSE [writer EXCEPT ![r] =
            [present |-> TRUE, next |-> NextSeqOf(Visible(r), Window(Visible(r))),
             repaired |-> TRUE]]

\* A call to write_bus_event(_with_ts) or write_run_event takes its Arc.  Nobody
\* has the id of a fork before fork_session returned it.
BeginWrite(p, r, e) ==
    /\ op[p] = Idle
    /\ r \in created /\ \A q \in Procs : op[q].to # r
    /\ e \notin issued
    /\ writer' = RunLock(r)
    /\ op' = [op EXCEPT ![p] = Call("handle", r, e, NoRun)]
    /\ issued' = issued \cup {e}
    /\ UNCHANGED <<log, tail, holder, rd, acked, shown, created, owed, forked,
                   faults, crashes>>

\* The mutex is taken and the tail repaired before a number is read.
LockAndRepair(p) ==
    LET r == op[p].run IN
    /\ op[p].at = "handle" /\ holder[r] = NoProc
    /\ IF writer[r].repaired THEN UNCHANGED <<log, tail>> ELSE Repair(r)
    /\ writer' = Reseeded(r)
    /\ holder' = [holder EXCEPT ![r] = p]
    /\ op' = [op EXCEPT ![p].at = "locked"]
    /\ UNCHANGED <<rd, issued, acked, shown, created, owed, forked, faults, crashes>>

\* writeln! is two writes, the line and its newline, and a long line may reach
\* the file in pieces: a lock-free reader can see every stage.
WriteFragment(p) ==
    LET r == op[p].run IN
    /\ op[p].at = "locked"
    /\ tail' = [tail EXCEPT ![r] = [st |-> "torn", seq |-> writer[r].next, ev |-> op[p].ev]]
    /\ op' = [op EXCEPT ![p].at = "line"]
    /\ UNCHANGED <<log, writer, holder, rd, issued, acked, shown, created, owed,
                   forked, faults, crashes>>

WriteLine(p) ==
    LET r == op[p].run IN
    /\ op[p].at \in {"locked", "line"}
    /\ tail' = [tail EXCEPT ![r] = [st |-> "whole", seq |-> writer[r].next, ev |-> op[p].ev]]
    /\ op' = [op EXCEPT ![p].at = "newline"]
    /\ UNCHANGED <<log, writer, holder, rd, issued, acked, shown, created, owed,
                   forked, faults, crashes>>

Release(p, r) ==
    /\ holder' = [x \in Runs |-> IF x = r THEN NoProc ELSE holder[x]]
    /\ op' = [op EXCEPT ![p] = Idle]

\* The newline is out: next_seq advances and the call returns Ok(seq).
WriteNewline(p) ==
    LET r == op[p].run IN
    /\ op[p].at = "newline"
    /\ log' = [log EXCEPT ![r] = Visible(r)]
    /\ tail' = [tail EXCEPT ![r] = NoTail]
    /\ acked' = acked \cup {<<r, writer[r].next, op[p].ev>>}
    /\ writer' = [writer EXCEPT ![r].next = writer[r].next + 1]
    /\ Release(p, r)
    /\ UNCHANGED <<rd, issued, shown, created, owed, forked, faults, crashes>>

\* writeln! failed, after none, some or all of the line's bytes: the call
\* returns Err and leaves what was written to the next repair.
WriteFails(p) ==
    LET r == op[p].run IN
    /\ faults < MaxFaults
    /\ op[p].at \in {"locked", "line", "newline"}
    /\ writer' = [writer EXCEPT ![r].repaired = FALSE]
    /\ Release(p, r)
    /\ faults' = faults + 1
    /\ UNCHANGED <<log, tail, rd, issued, acked, shown, created, owed, forked, crashes>>

\* The repair, ensure_dir, the open or File::create failed: nothing was written.
OpenFails(p) ==
    LET r == op[p].run IN
    /\ faults < MaxFaults
    /\ \/ op[p].at \in {"handle", "snapshot"} /\ holder[r] = NoProc
       \/ op[p].at \in {"locked", "target"}
    /\ Release(p, r)
    /\ faults' = faults + 1
    /\ UNCHANGED <<log, tail, writer, rd, issued, acked, shown, created, owed,
                   forked, crashes>>

-----------------------------------------------------------------------------
\* copy_bus_events, called with the id of the run fork_session just created.
BeginFork(p, r, t) ==
    /\ op[p] = Idle
    /\ r \in created /\ t \in Runs \ created
    /\ \A q \in Procs : op[q].to # r
    /\ writer' = RunLock(r)
    /\ op' = [op EXCEPT ![p] = Call("snapshot", r, NoEvent, t)]
    /\ created' = created \cup {t}
    /\ owed' = [owed EXCEPT ![t] = {a[3] : a \in {b \in acked : b[1] = r}} \cap Content]
    /\ UNCHANGED <<log, tail, holder, rd, issued, acked, shown, forked, faults, crashes>>

\* EventWriter::snapshot of the parent: repair, then a fixed prefix of the file.
\* The parent's mutex is released here and its writers go on.
Snapshot(p) ==
    LET r == op[p].run IN
    /\ op[p].at = "snapshot" /\ holder[r] = NoProc
    /\ Repair(r)
    /\ writer' = Reseeded(r)
    /\ op' = [op EXCEPT ![p].at = "target", ![p].run = NoRun,
                        ![p].rest = Visible(r)]
    /\ UNCHANGED <<holder, rd, issued, acked, shown, created, owed, forked, faults, crashes>>

\* The target's entry is created and locked, its file created empty.
CreateTarget(p) ==
    LET t == op[p].to IN
    /\ op[p].at = "target" /\ holder[t] = NoProc
    /\ writer' = [RunLock(t) EXCEPT ![t].repaired = FALSE]
    /\ holder' = [holder EXCEPT ![t] = p]
    /\ log' = [log EXCEPT ![t] = <<>>]
    /\ tail' = [tail EXCEPT ![t] = NoTail]
    /\ op' = [op EXCEPT ![p].at = "copy", ![p].run = t]
    /\ UNCHANGED <<rd, issued, acked, shown, created, owed, forked, faults, crashes>>

\* Mutant: a copied line keeps the number it had in the parent.
CopyLineKeepsSeq(p) ==
    LET t == op[p].to
        line == Head(op[p].rest) IN
    /\ op[p].at = "copy" /\ op[p].rest # <<>>
    /\ log' = IF line.ev \in Content THEN [log EXCEPT ![t] = Append(@, line)] ELSE log
    /\ op' = [op EXCEPT ![p].rest = Tail(@)]
    /\ UNCHANGED <<tail, writer, holder, rd, issued, acked, shown, created, owed,
                   forked, faults, crashes>>

\* Mutant: lines longer than the reader's buffer are left out of the copy.
CopyLineSkipsBig(p) ==
    LET t == op[p].to
        line == Head(op[p].rest) IN
    /\ op[p].at = "copy" /\ op[p].rest # <<>>
    /\ log' = IF line.ev \in Content \ Big
              THEN [log EXCEPT ![t] = Append(@, [line EXCEPT !.seq = Len(log[t]) + 1])]
              ELSE log
    /\ op' = [op EXCEPT ![p].rest = Tail(@)]
    /\ UNCHANGED <<tail, writer, holder, rd, issued, acked, shown, created, owed,
                   forked, faults, crashes>>

\* copy_bus_events_from_reader: one line of the prefix, renumbered from 1 when
\* it is content, left out when it is not.
CopyLine(p) ==
    LET t == op[p].to
        line == Head(op[p].rest) IN
    /\ op[p].at = "copy" /\ op[p].rest # <<>>
    /\ log' = IF line.ev \in Content
              THEN [log EXCEPT ![t] = Append(@, [seq |-> Len(@) + 1, ev |-> line.ev])]
              ELSE log
    /\ op' = [op EXCEPT ![p].rest = Tail(@)]
    /\ UNCHANGED <<tail, writer, holder, rd, issued, acked, shown, created, owed,
                   forked, faults, crashes>>

EndCopy(p) ==
    LET t == op[p].to IN
    /\ op[p].at = "copy" /\ op[p].rest = <<>>
    /\ writer' = [writer EXCEPT ![t] =
            [present |-> TRUE, next |-> Len(log[t]) + 1, repaired |-> TRUE]]
    /\ forked' = forked \cup {t}
    /\ Release(p, t)
    /\ UNCHANGED <<log, tail, rd, issued, acked, shown, created, owed, faults, crashes>>

\* An I/O error while the BufWriter is drained: part of a line may be out.
CopyFails(p, torn) ==
    LET t == op[p].to IN
    /\ faults < MaxFaults
    /\ op[p].at = "copy" /\ op[p].rest # <<>>
    /\ Head(op[p].rest).ev \in Content
    /\ tail' = IF torn
               THEN [tail EXCEPT ![t] = [st |-> "torn", seq |-> Len(log[t]) + 1,
                                         ev |-> Head(op[p].rest).ev]]
               ELSE tail
    /\ Release(p, t)
    /\ faults' = faults + 1
    /\ UNCHANGED <<log, writer, rd, issued, acked, shown, created, owed, forked, crashes>>

-----------------------------------------------------------------------------
(* list_bus_events_page.  A page that ends with has_more resumes at the    *)
(* start of the line it stopped at, so the pages of one catch-up read the  *)
(* file line by line, like one long page.                                  *)

\* What the page must hold: the replayable events acknowledged when it is opened.
Due(r, since) ==
    {a[2] : a \in {b \in acked : b[1] = r /\ b[2] > since /\ b[3] \in Replay}}

BeginRead(q, r, since) ==
    /\ rd[q] = NotReading /\ r \in created
    /\ rd' = [rd EXCEPT ![q] =
            [at |-> "reading", run |-> r, since |-> since, pos |-> 0,
             garbled |-> FALSE, got |-> {}, due |-> Due(r, since)]]
    /\ UNCHANGED <<log, tail, writer, holder, op, issued, acked, shown, created,
                   owed, forked, faults, crashes>>

\* Mutant: the event that follows the watermark is skipped.
DeliverOffByOne(q, line) ==
    IF line.seq > rd[q].since + 1 /\ line.ev \in Replay
    THEN /\ shown' = shown \cup {<<rd[q].run, line.seq, line.ev>>}
         /\ rd' = [rd EXCEPT ![q].pos = @ + 1, ![q].got = @ \cup {line.seq}]
    ELSE /\ rd' = [rd EXCEPT ![q].pos = @ + 1]
         /\ UNCHANGED shown

Deliver(q, line) ==
    IF line.seq > rd[q].since /\ line.ev \in Replay
    THEN /\ shown' = shown \cup {<<rd[q].run, line.seq, line.ev>>}
         /\ rd' = [rd EXCEPT ![q].pos = @ + 1, ![q].got = @ \cup {line.seq}]
    ELSE /\ rd' = [rd EXCEPT ![q].pos = @ + 1]
         /\ UNCHANGED shown

\* A complete line.  When its first bytes were consumed as a fragment, what is
\* left of it does not parse and is skipped.
ReadLine(q) ==
    LET r == rd[q].run IN
    /\ rd[q].at = "reading" /\ rd[q].pos < Len(log[r])
    /\ IF rd[q].garbled
       THEN /\ rd' = [rd EXCEPT ![q].pos = @ + 1, ![q].garbled = FALSE]
            /\ UNCHANGED shown
       ELSE /\ ~(log[r][rd[q].pos + 1].ev \in Oversized
                    /\ log[r][rd[q].pos + 1].seq > rd[q].since)
            /\ Deliver(q, log[r][rd[q].pos + 1])
    /\ UNCHANGED <<log, tail, writer, holder, op, issued, acked, created, owed,
                   forked, faults, crashes>>

\* HISTORY_PROJECTION_REQUIRED: the caller gets no page and reloads the projection.
ReadOversized(q) ==
    LET r == rd[q].run IN
    /\ rd[q].at = "reading" /\ rd[q].pos < Len(log[r]) /\ ~rd[q].garbled
    /\ log[r][rd[q].pos + 1].ev \in Oversized
    /\ log[r][rd[q].pos + 1].seq > rd[q].since
    /\ rd' = [rd EXCEPT ![q] = NotReading]
    /\ UNCHANGED <<log, tail, writer, holder, op, issued, acked, shown, created,
                   owed, forked, faults, crashes>>

AtTail(q) == rd[q].at = "reading" /\ rd[q].pos >= Len(log[rd[q].run])

\* A whole tail parses and is returned; the newline that follows reads as an
\* empty line, which ends the page.
ReadWholeTail(q) ==
    LET r == rd[q].run IN
    /\ AtTail(q) /\ tail[r].st = "whole" /\ ~rd[q].garbled
    /\ IF tail[r].seq > rd[q].since /\ tail[r].ev \in Replay \ Oversized
       THEN shown' = shown \cup {<<r, tail[r].seq, tail[r].ev>>}
       ELSE UNCHANGED shown
    /\ rd' = [rd EXCEPT ![q] = NotReading]
    /\ UNCHANGED <<log, tail, writer, holder, op, issued, acked, created, owed,
                   forked, faults, crashes>>

\* A fragment does not parse: it is skipped, and the reader asks for more.
ReadFragment(q) ==
    /\ AtTail(q) /\ ~rd[q].garbled
    /\ tail[rd[q].run].st = "torn"
    /\ rd' = [rd EXCEPT ![q].garbled = TRUE]
    /\ UNCHANGED <<log, tail, writer, holder, op, issued, acked, shown, created,
                   owed, forked, faults, crashes>>

\* End of file, or a fragment cut inside a UTF-8 character: the page ends or fails.
EndRead(q) ==
    /\ AtTail(q)
    /\ tail[rd[q].run].st # "whole" \/ rd[q].garbled
    /\ rd' = [rd EXCEPT ![q] = NotReading]
    /\ UNCHANGED <<log, tail, writer, holder, op, issued, acked, shown, created,
                   owed, forked, faults, crashes>>

-----------------------------------------------------------------------------
\* The process dies: locks, calls and the map are gone, the files stay.
Crash ==
    /\ crashes < MaxCrashes
    /\ writer' = [r \in Runs |-> Absent]
    /\ holder' = [r \in Runs |-> NoProc]
    /\ op' = [p \in Procs |-> Idle]
    /\ rd' = [q \in Readers |-> NotReading]
    /\ crashes' = crashes + 1
    /\ UNCHANGED <<log, tail, issued, acked, shown, created, owed, forked, faults>>

ProcNext(p) ==
    \/ \E r \in Runs, e \in Events : BeginWrite(p, r, e)
    \/ LockAndRepair(p) \/ WriteFragment(p) \/ WriteLine(p) \/ WriteNewline(p)
    \/ WriteFails(p) \/ OpenFails(p)
    \/ \E r, t \in Runs : BeginFork(p, r, t)
    \/ Snapshot(p) \/ CreateTarget(p) \/ CopyLine(p) \/ EndCopy(p)
    \/ \E torn \in BOOLEAN : CopyFails(p, torn)

ReaderNext(q) ==
    \/ \E r \in Runs : \E since \in 0 .. Len(log[r]) : BeginRead(q, r, since)
    \/ ReadLine(q) \/ ReadOversized(q) \/ ReadWholeTail(q) \/ ReadFragment(q)
    \/ EndRead(q)

Next ==
    \/ \E p \in Procs : ProcNext(p)
    \/ \E q \in Readers : ReaderNext(q)
    \/ Crash

Spec == Init /\ [][Next]_vars

-----------------------------------------------------------------------------
TypeOK ==
    /\ log \in [Runs -> Seq(Line)]
    /\ tail \in [Runs -> TailBytes]
    /\ writer \in [Runs -> Entries]
    /\ holder \in [Runs -> Procs \cup {NoProc}]
    /\ op \in [Procs -> Calls]
    /\ rd \in [Readers -> Reads]
    /\ issued \subseteq Events
    /\ acked \subseteq Runs \X Nat \X Events
    /\ shown \subseteq Runs \X Nat \X Events
    /\ created \subseteq Runs /\ forked \subseteq Runs
    /\ owed \in [Runs -> SUBSET Events]
    /\ faults \in 0 .. MaxFaults /\ crashes \in 0 .. MaxCrashes

\* The numbers of a log's lines are 1, 2, 3, ..., through failed writes, torn
\* tails, repairs, map collections, restarts and forks: no two lines of a run
\* share a number and none is skipped (next_seq, run_lock, the mutex).
SeqsDense == \A r \in Runs : \A i \in DOMAIN Visible(r) : Visible(r)[i].seq = i

\* The log implements the append-only log its callers rely on: what is parseable
\* in the file only grows, one numbered event at a time, and Ok is only returned
\* for what is there.
Abstract == INSTANCE AppendLog WITH entries <- [r \in Runs |-> Visible(r)], acks <- acked
AppendOnly == Abstract!Spec

\* An event whose write returned Ok(seq) stays in the file under that number,
\* whatever is repaired, collected, copied or restarted afterwards.
AckedDurable ==
    \A a \in acked : /\ a[2] \in DOMAIN log[a[1]]
                     /\ log[a[1]][a[2]].ev = a[3]

\* What a lock-free reader was shown, a tail that still lacks its newline
\* included, is never taken back by a repair.
ShownDurable ==
    \A s \in shown : /\ s[2] \in DOMAIN Visible(s[1])
                     /\ Visible(s[1])[s[2]].ev = s[3]

\* A reader returns every replayable event beyond its watermark that was
\* acknowledged before it opened the file, up to the line it has reached.
CatchUpComplete ==
    \A q \in Readers : \A s \in rd[q].due : s <= rd[q].pos => s \in rd[q].got

\* A fork whose copy returned Ok holds every content event acknowledged on its
\* parent before the call, although the parent's writers were never stopped.
ForkComplete ==
    \A t \in forked : owed[t] \subseteq {log[t][i].ev : i \in DOMAIN log[t]}

\* Who reads a log while it grows, to catch up or to fork it, misses nothing.
ReadsComplete == CatchUpComplete /\ ForkComplete

\* A page leaves no hole: it never returns an event while an earlier replayable
\* one, beyond the same watermark and already behind the reader, was left out.
PageHasNoGap ==
    \A q \in Readers : \A i \in 1 .. rd[q].pos :
        /\ rd[q].at = "reading" /\ i <= Len(log[rd[q].run]) /\ i > rd[q].since
        /\ log[rd[q].run][i].ev \in Replay
        /\ \E s \in rd[q].got : s > i
        => i \in rd[q].got

=============================================================================
