--------------------------- MODULE CodexAppServer ---------------------------
(***************************************************************************)
(* A Codex session: the driver of the app-server protocol                  *)
(* (agent/codex_appserver.rs) and the part of the session actor that hands  *)
(* it lines and turns (agent/session_actor.rs).                            *)
(*                                                                         *)
(* One connection carries the messages of many threads.  Those of a thread *)
(* that nobody has claimed yet wait in a buffer, bounded in three ways and *)
(* in time, until an item of a known thread names it as its sub-agent, or  *)
(* the reply to thread/start names it as the root.  The server blocks on    *)
(* every request until it is answered, so a request must never be lost in   *)
(* that buffer, while notifications may.                                    *)
(*                                                                         *)
(* Left out: what notifications show, the ids of frames, steering and      *)
(* interrupting (both only address a turn the server may end anyway), and   *)
(* the overrides a turn carries.                                            *)
(***************************************************************************)
EXTENDS Integers, Sequences, SequencesExt, FiniteSetsExt

CONSTANTS
  Root, Children,  \* the threads of the connection
  Reqs,            \* the requests the server may send
  MaxThreads,      \* MAX_UNCLAIMED_THREADS
  MaxPerThread,    \* MAX_DEFERRED_MESSAGES_PER_THREAD
  MaxBytes,        \* MAX_DEFERRED_PAYLOAD_BYTES
  Sizes,           \* the payload sizes of messages
  MaxTickets       \* bound: messages the user sends

NoThread == "no thread"
Threads == {Root} \cup Children

VARIABLES
  driver,   \* the fields of CodexAppServer
  engine,   \* the turn engine of the actor
  fate,     \* what became of each request
  open,     \* the server's reply to thread/start or thread/resume
  atServer  \* turns given to the server and not over

vars == <<driver, engine, fate, open, atServer>>

(* A buffered message.  id is the request, or the thread an item has spawned. *)
Entries ==
  [thread : Threads, kind : {"text", "turnOver", "spawn", "request"},
   size : Nat, id : Reqs \cup Threads \cup {NoThread}, old : BOOLEAN]

Fates ==
  {"unsent", "waiting", "answered", "expired", "refused", "displaced", "displacedByNote",
   "twice", "ignored"}

TypeOK ==
  /\ driver \in [ready : BOOLEAN, root : {Root, NoThread}, claimed : SUBSET Threads,
                 buffer : Seq(Entries), bytes : Int, pending : SUBSET Reqs]
  /\ engine \in [ready : BOOLEAN, prompts : SUBSET Reqs, queued : 0..MaxTickets,
                 turn : {"none", "given", "dropped"}, sent : 0..MaxTickets]
  /\ fate \in [Reqs -> Fates]
  /\ open \in {"none", "ok", "nameless", "failed"}
  /\ atServer \in Int

Init ==
  /\ driver \in [ready : {FALSE}, root : {Root, NoThread}, claimed : {{}}, buffer : {<<>>},
                 bytes : {0}, pending : {{}}]
  /\ engine = [ready |-> FALSE, prompts |-> {}, queued |-> 0, turn |-> "none", sent |-> 0]
  /\ fate = [r \in Reqs |-> "unsent"]
  /\ open = "none"
  /\ atServer = 0

-----------------------------------------------------------------------------
(* The buffer.  Its operators work on a step: the driver, the fates, and    *)
(* what the line has produced for the actor, so far (ParsedLine).           *)

Step == [d |-> driver, f |-> fate, prompts |-> {}, signal |-> FALSE, todo |-> <<>>]

(* A loop over the buffer: no step of it goes on longer than that has      *)
(* messages, for each turn of the loop takes one out.                      *)
Repeat(op(_), s) == FoldLeft(LAMBDA acc, e : op(acc), s, driver.buffer)

(* The reply to a request.  A second one would be a protocol error. *)
Answer(f, r, how) == [f EXCEPT ![r] = IF @ = "waiting" THEN how ELSE "twice"]

Reject(s, entry, why) ==
  IF entry.kind = "request" THEN [s EXCEPT !.f = Answer(@, entry.id, why)] ELSE s

Queue(d, t) == SelectSeq(d.buffer, LAMBDA e : e.thread = t)
Unclaimed(d) == {e.thread : e \in Range(d.buffer)}

(* remove_deferred_entry *)
RemoveEntry(s, i, why) ==
  LET entry == s.d.buffer[i] IN
  Reject([s EXCEPT !.d.buffer = RemoveAt(@, i), !.d.bytes = Max({0, @ - entry.size})], entry, why)

(* expire_deferred_messages: age follows the order of arrival. *)
Expire(s) ==
  Repeat(LAMBDA acc : IF acc.d.buffer # <<>> /\ Head(acc.d.buffer).old
                      THEN RemoveEntry(acc, 1, "expired") ELSE acc, s)

\* Mutant: the oldest message goes, whatever it is.
VictimOldest(d, entry, threads) == SelectInSeq(d.buffer, LAMBDA e : e.thread \in threads)

(* evict_oldest_deferred and, with one thread, ..._in_thread: the oldest    *)
(* notification, else, for a request only, the oldest request.  0 when      *)
(* there is nothing to evict.                                               *)
Victim(d, entry, threads) ==
  LET note == SelectInSeq(d.buffer, LAMBDA e : e.thread \in threads /\ e.kind # "request")
  IN IF note # 0 THEN note
     ELSE IF entry.kind = "request" THEN SelectInSeq(d.buffer, LAMBDA e : e.thread \in threads)
     ELSE 0

Displaced(entry) == IF entry.kind = "request" THEN "displaced" ELSE "displacedByNote"

(* What the next turn of one of the three loops of defer_thread_message     *)
(* evicts: too many threads, a thread too long, too many bytes.  -1 when    *)
(* the message fits.                                                        *)
InTheWay(d, entry) ==
  IF Cardinality(Unclaimed(d)) >= MaxThreads /\ entry.thread \notin Unclaimed(d)
  THEN Victim(d, entry, Threads)
  ELSE IF Len(Queue(d, entry.thread)) >= MaxPerThread THEN Victim(d, entry, {entry.thread})
  ELSE IF d.bytes + entry.size > MaxBytes THEN Victim(d, entry, Threads) ELSE -1

(* defer_thread_message, once the old messages are gone *)
Defer(s, entry) ==
  LET evicted ==
        Repeat(LAMBDA acc : LET victim == InTheWay(acc.d, entry)
                            IN IF victim > 0 THEN RemoveEntry(acc, victim, Displaced(entry))
                               ELSE acc, s)
  IN IF entry.size > MaxBytes THEN Reject(s, entry, "refused")
     ELSE IF InTheWay(evicted.d, entry) = 0 THEN Reject(evicted, entry, "refused")
     ELSE [evicted EXCEPT !.d.buffer = Append(@, entry), !.d.bytes = @ + entry.size]

DeferMessage(s, entry) == Defer(Expire(s), entry)

-----------------------------------------------------------------------------
(* Messages *)

Known(d, t) == t \in d.claimed \/ t = d.root

(* handle_server_request of a thread that is known. *)
Prompt(s, r) ==
  [s EXCEPT !.d.pending = @ \cup {r}, !.prompts = @ \cup {r}]

(* What is buffered for a thread is to be replayed, before anything else.   *)
Claim(s, t) ==
  [s EXCEPT !.d.buffer = SelectSeq(@, LAMBDA e : e.thread # t), !.todo = Queue(s.d, t) \o @]

(* register_subagents claims the thread a spawn item names.  A turn that is  *)
(* over is the root's, or a sub-agent's, which the item of its parent shows. *)
Handle(s, entry) ==
  CASE entry.kind = "request" -> Prompt(s, entry.id)
    [] entry.kind = "spawn" -> Claim([s EXCEPT !.d.claimed = @ \cup {entry.id}], entry.id)
    [] entry.kind = "turnOver" /\ entry.thread \notin s.d.claimed -> [s EXCEPT !.signal = TRUE]
    [] OTHER -> s

(* replay_deferred_thread: in the order of arrival; a replayed item may      *)
(* claim the next thread, whose messages come before the rest of its own.   *)
Replay(s) ==
  Repeat(LAMBDA acc :
           IF acc.todo = <<>> THEN acc
           ELSE LET e == Head(acc.todo)
                    paid == [acc EXCEPT !.todo = Tail(@), !.d.bytes = Max({0, @ - e.size})]
                IN IF e.old THEN Reject(paid, e, "expired") ELSE Handle(paid, e), s)

(* handle_notification and handle_server_request *)
Receive(s, entry) ==
  IF Known(s.d, entry.thread) THEN Replay(Handle(s, entry)) ELSE DeferMessage(s, entry)

-----------------------------------------------------------------------------
(* The actor *)

\* Mutant: an empty queue is dispatched too.
DispatchEmpty(e, d) ==
  IF e.turn # "none" \/ ~e.ready THEN e
  ELSE [e EXCEPT !.queued = @ - 1, !.turn = IF d.root = NoThread THEN "dropped" ELSE "given"]

(* try_dispatch, start_user_turn, frame_user_turn: without a thread id no   *)
(* frame is written, but the turn counts as started.                        *)
Dispatch(e, d) ==
  IF e.turn # "none" \/ ~e.ready \/ e.queued = 0 THEN e
  ELSE [e EXCEPT !.queued = @ - 1, !.turn = IF d.root = NoThread THEN "dropped" ELSE "given"]

Given(before, after) == before.turn = "none" /\ after.turn = "given"

(* handle_codex_line, after parse_line: the gate opens and the queue is     *)
(* flushed; prompts are recorded; a turn's end flushes the queue again.     *)
TakeLine(s, over) ==
  LET opened == IF s.d.ready /\ ~engine.ready
                THEN Dispatch([engine EXCEPT !.ready = TRUE], s.d) ELSE engine
      prompted == [opened EXCEPT !.prompts = @ \cup s.prompts]
      ended == IF s.signal THEN [prompted EXCEPT !.turn = "none"] ELSE prompted
      final == IF s.signal THEN Dispatch(ended, s.d) ELSE ended
  IN /\ driver' = s.d
     /\ fate' = s.f
     /\ engine' = final
     /\ atServer' = atServer - over + (IF Given(engine, opened) THEN 1 ELSE 0)
                             + (IF Given(ended, final) THEN 1 ELSE 0)

(* The user sends a message. *)
Send ==
  /\ engine.sent < MaxTickets
  /\ LET queued == [engine EXCEPT !.queued = @ + 1, !.sent = @ + 1]
     IN /\ engine' = Dispatch(queued, driver)
        /\ atServer' = atServer + IF Given(queued, engine') THEN 1 ELSE 0
  /\ UNCHANGED <<driver, fate, open>>

(* The user answers a prompt: deliver_interaction_response, frame_response. *)
Respond(r) ==
  /\ r \in driver.pending
  /\ engine' = [engine EXCEPT !.prompts = @ \ {r}]
  /\ driver' = [driver EXCEPT !.pending = @ \ {r}]
  /\ fate' = Answer(fate, r, "answered")
  /\ UNCHANGED <<open, atServer>>

(* on_tick_timeout begins with expire_deferred. *)
Tick ==
  LET s == Expire(Step)
  IN /\ s.d # driver
     /\ driver' = s.d
     /\ fate' = s.f
     /\ UNCHANGED <<engine, open, atServer>>

-----------------------------------------------------------------------------
(* The server *)

Note(t, kind, size, id) ==
  [thread |-> t, kind |-> kind, size |-> size, id |-> id, old |-> FALSE]

(* An item of some thread, without or with a sub-agent it has spawned. *)
ServerText(t, size) ==
  TakeLine(Receive(Step, Note(t, "text", size, NoThread)), 0)

ServerSpawn(t, child) ==
  /\ t # child
  /\ TakeLine(Receive(Step, Note(t, "spawn", 1, child)), 0)

(* turn/completed or turn/failed: the root's ends a turn it was given. *)
ServerTurnOver(t) ==
  /\ t = Root => atServer > 0
  /\ TakeLine(Receive(Step, Note(t, "turnOver", 1, NoThread)), IF t = Root THEN 1 ELSE 0)

ServerRequest(t, r, size) ==
  /\ fate[r] = "unsent"
  /\ TakeLine(Receive([Step EXCEPT !.f[r] = "waiting"], Note(t, "request", size, r)), 0)

(* A request without a thread id: the two old methods have none and are     *)
(* shown at once, any other is refused.                                     *)
ServerRequestNoThread(r, legacy) ==
  /\ fate[r] = "unsent"
  /\ LET s == [Step EXCEPT !.f[r] = "waiting"]
     IN TakeLine(IF legacy THEN Prompt(s, r) ELSE [s EXCEPT !.f = Answer(@, r, "refused")], 0)

(* A request of a method that is not one of the seven interactive ones gets  *)
(* no reply, whatever thread it is about.                                   *)
ServerOtherRequest(r) ==
  /\ fate[r] = "unsent"
  /\ TakeLine([Step EXCEPT !.f[r] = "ignored"], 0)

(* The reply to request 2.  It names the root of a new thread, whose        *)
(* messages may have come before it; without a name the session is ready    *)
(* and has no thread.  An error is ignored.                                 *)
ServerOpened ==
  /\ open = "none"
  /\ \E named \in BOOLEAN :
       /\ open' = IF named \/ driver.root # NoThread THEN "ok" ELSE "nameless"
       /\ TakeLine(LET s == IF named /\ driver.root = NoThread
                            THEN Replay(Claim([Step EXCEPT !.d.root = Root], Root)) ELSE Step
                   IN [s EXCEPT !.d.ready = TRUE], 0)

ServerOpenFailed ==
  /\ open = "none"
  /\ open' = "failed"
  /\ UNCHANGED <<driver, engine, fate, atServer>>

(* thread/started is broadcast for every thread, before or after the reply. *)
ServerThreadStarted(t) ==
  /\ open # "failed"
  /\ TakeLine([Step EXCEPT !.d.ready = @ \/ driver.root = t], 0)

Age ==
  /\ \E n \in 1..Len(driver.buffer) :
       /\ ~driver.buffer[n].old
       /\ driver' = [driver EXCEPT
            !.buffer = [i \in DOMAIN @ |-> [@[i] EXCEPT !.old = @ \/ i <= n]]]
  /\ UNCHANGED <<engine, fate, open, atServer>>

Next ==
  \/ Send \/ Tick \/ Age
  \/ \E r \in Reqs : Respond(r)
  \/ /\ \/ \E t \in Threads :
             \/ \E size \in Sizes :
                  ServerText(t, size) \/ \E r \in Reqs : ServerRequest(t, r, size)
             \/ \E child \in Children : ServerSpawn(t, child)
             \/ ServerTurnOver(t)
             \/ ServerThreadStarted(t)
        \/ \E r \in Reqs : \/ \E legacy \in BOOLEAN : ServerRequestNoThread(r, legacy)
                          \/ ServerOtherRequest(r)
     /\ UNCHANGED open
  \/ ServerOpened \/ ServerOpenFailed

Spec == Init /\ [][Next]_vars

-----------------------------------------------------------------------------
(* Properties *)

Deferred == {e.id : e \in {x \in Range(driver.buffer) : x.kind = "request"}}

(* The server waits for the answer to every request it sends: one that is   *)
(* to be answered and has no answer yet is in the buffer or in front of the *)
(* user, in just one of the two and known to actor and driver alike; none    *)
(* is answered twice, however it was buffered, replayed, displaced or       *)
(* expired; and none is displaced to make room for a notification, whichever *)
(* limit that met.  The known exception are requests of other methods than   *)
(* the seven interactive ones: they are ignored, and the server waits.      *)
OneReply ==
  /\ Deferred \cap driver.pending = {}
  /\ engine.prompts = driver.pending
  /\ \A r \in Reqs :
       /\ fate[r] \notin {"twice", "displacedByNote"}
       /\ fate[r] = "waiting" <=> r \in Deferred \cup driver.pending

(* Unrelated threads cannot grow the session's memory: the three limits     *)
(* hold, and the byte counter, which is kept by hand over deferral,         *)
(* eviction, expiry and nested replay, is the size of what is buffered; a    *)
(* thread that is known has nothing buffered.                               *)
BufferBounded ==
  /\ Cardinality(Unclaimed(driver)) <= MaxThreads
  /\ \A t \in Threads : Len(Queue(driver, t)) <= MaxPerThread
  /\ driver.bytes <= MaxBytes
  /\ driver.bytes = FoldLeft(LAMBDA n, e : n + e.size, 0, driver.buffer)
  /\ \A t \in Unclaimed(driver) : ~Known(driver, t)

(* A user's message is never swallowed: a turn counts as started only when  *)
(* the thread it goes to is known, and the server never holds two turns of   *)
(* the session, so no other thread's end of turn may advance the queue.  The *)
(* one exception is a new thread whose opening reply does not name it.       *)
TurnReachesThread ==
  /\ engine.turn = "dropped" => open = "nameless"
  /\ atServer <= 1
  /\ atServer = 1 <=> engine.turn = "given"

=============================================================================
