-------------------------- MODULE SessionActorProofs --------------------------
(***************************************************************************)
(* Proofs about SessionActor for every set of tickets and prompts, every   *)
(* limit of a Ralph loop and any number of loops and interrupts: what each *)
(* method and each handler of the actor does to the engine, to stdin and to *)
(* the cards, and the types; and, from these lemmas, what the actor          *)
(* promises: one turn at a time in the CLI, nothing queued behind an idle    *)
(* engine, the state shown to the user, the verdict on the run, the fate of *)
(* a message and of a prompt.                                              *)
(***************************************************************************)
EXTENDS SessionActor, SequenceTheorems, FiniteSetTheorems, TLAPS

-----------------------------------------------------------------------------
(* How often the elements of a set occur in a sequence: a message in a pipe, *)
(* a command in a mailbox, a ticket in a queue.                            *)

\* The positions of s that hold an element of A, and how many there are.
Places(s, A) == {i \in DOMAIN s : s[i] \in A}
Hits(s, A) == Cardinality(Places(s, A))

LEMMA PlacesFinite ==
    ASSUME NEW T, NEW s \in Seq(T), NEW A
    PROVE  IsFiniteSet(Places(s, A)) /\ Hits(s, A) \in Nat
<1>1. Len(s) \in Nat /\ DOMAIN s = 1 .. Len(s)
  OBVIOUS
<1>2. IsFiniteSet(1 .. Len(s))
  BY <1>1, FS_Interval
<1>3. Places(s, A) \in SUBSET (1 .. Len(s))
  BY <1>1 DEF Places
<1>4. IsFiniteSet(Places(s, A))
  BY <1>2, <1>3, FS_Subset
<1> QED
  BY <1>4, FS_CardinalityType DEF Hits

\* Nothing hits an empty sequence, and what does not occur hits nothing.
LEMMA HitsOfEmpty == ASSUME NEW A PROVE Hits(<<>>, A) = 0
<1>1. Places(<<>>, A) = {}
  BY DEF Places
<1> QED
  BY <1>1, FS_EmptySet DEF Hits

LEMMA HitsIsZero ==
    ASSUME NEW T, NEW s \in Seq(T), NEW A
    PROVE  Hits(s, A) = 0 <=> \A i \in 1 .. Len(s) : s[i] \notin A
<1>1. Hits(s, A) = 0 <=> Places(s, A) = {}
  BY PlacesFinite, FS_EmptySet DEF Hits
<1>2. DOMAIN s = 1 .. Len(s)
  OBVIOUS
<1> QED
  BY <1>1, <1>2 DEF Places

\* Two sequences of the same hits at the same places.
LEMMA HitsOfAppend ==
    ASSUME NEW T, NEW s \in Seq(T), NEW e \in T, NEW A
    PROVE  Hits(Append(s, e), A) = Hits(s, A) + (IF e \in A THEN 1 ELSE 0)
<1> DEFINE n == Len(s)
           t == Append(s, e)
<1>1. /\ n \in Nat /\ t \in Seq(T) /\ Len(t) = n + 1
      /\ \A i \in 1 .. n : t[i] = s[i]
      /\ t[n + 1] = e
  BY AppendProperties
<1>2. DOMAIN s = 1 .. n /\ DOMAIN t = 1 .. n + 1
  BY <1>1
<1> HIDE DEF t, n
<1>3. Places(t, A) = Places(s, A) \cup (IF e \in A THEN {n + 1} ELSE {})
  BY <1>1, <1>2 DEF Places
<1>4. n + 1 \notin Places(s, A)
  BY <1>1, <1>2 DEF Places
<1>5. IsFiniteSet(Places(s, A)) /\ Hits(s, A) \in Nat
  BY PlacesFinite
<1>6. CASE e \in A
  <2>1. Places(t, A) = Places(s, A) \cup {n + 1}
    BY <1>3, <1>6
  <2>2. Cardinality(Places(s, A) \cup {n + 1}) = Cardinality(Places(s, A)) + 1
    BY <1>4, <1>5, FS_AddElement
  <2> QED
    BY <1>6, <2>1, <2>2 DEF Hits, t
<1>7. CASE e \notin A
  <2>1. Places(t, A) = Places(s, A)
    BY <1>3, <1>7
  <2> QED
    BY <1>5, <1>7, <2>1 DEF Hits, t
<1> QED
  BY <1>6, <1>7

\* Dropping the first element drops its hit.
LEMMA HitsOfTail ==
    ASSUME NEW T, NEW s \in Seq(T), s # <<>>, NEW A
    PROVE  Hits(s, A) = Hits(Tail(s), A) + (IF Head(s) \in A THEN 1 ELSE 0)
<1> DEFINE n == Len(s)
           t == Tail(s)
           P == Places(s, A)
           Q == Places(t, A)
           f == [i \in P \ {1} |-> i - 1]
<1>1. /\ n \in Nat \ {0} /\ t \in Seq(T) /\ Len(t) = n - 1
      /\ \A i \in 1 .. n - 1 : t[i] = s[i + 1]
  BY HeadTailProperties, EmptySeq
<1>2. DOMAIN s = 1 .. n /\ DOMAIN t = 1 .. n - 1 /\ Head(s) = s[1]
  BY <1>1
<1>3. IsFiniteSet(P) /\ Hits(s, A) \in Nat
  BY PlacesFinite
<1> HIDE DEF n, t
<1>4. \A i \in P \ {1} : i - 1 \in Q
  BY <1>1, <1>2 DEF Places
<1>5. \A j \in Q : j + 1 \in P \ {1} /\ (j + 1) - 1 = j
  BY <1>1, <1>2 DEF Places
<1>6. P \subseteq Int
  BY <1>2 DEF Places
<1> HIDE DEF P, Q
<1>7. f \in Bijection(P \ {1}, Q)
  <2>1. f \in [P \ {1} -> Q]
    BY <1>4
  <2>2. f \in Injection(P \ {1}, Q)
    BY <1>6, <2>1 DEF Injection, IsInjective
  <2>3. f \in Surjection(P \ {1}, Q)
    BY <1>5, <2>1 DEF Surjection
  <2> QED
    BY <2>2, <2>3 DEF Bijection
<1>8. IsFiniteSet(P \ {1}) /\ Cardinality(P \ {1}) =
            IF 1 \in P THEN Cardinality(P) - 1 ELSE Cardinality(P)
  BY <1>3, FS_RemoveElement
<1>9. Cardinality(Q) = Cardinality(P \ {1})
  BY <1>7, <1>8, FS_Bijection DEF ExistsBijection
<1>10. 1 \in P <=> Head(s) \in A
  BY <1>1, <1>2 DEF P, Places
<1> QED
  BY <1>3, <1>8, <1>9, <1>10 DEF Hits, P, Q, t

\* Adding what does not hit, in any number, adds nothing.
LEMMA HitsOfConcat ==
    ASSUME NEW T, NEW s \in Seq(T), NEW u \in Seq(T), NEW A,
           \A i \in 1 .. Len(u) : u[i] \notin A
    PROVE  Hits(s \o u, A) = Hits(s, A)
<1>1. /\ Len(s) \in Nat /\ Len(u) \in Nat /\ s \o u \in Seq(T)
      /\ Len(s \o u) = Len(s) + Len(u)
      /\ \A i \in 1 .. Len(s) + Len(u) : (s \o u)[i] =
                     IF i <= Len(s) THEN s[i] ELSE u[i - Len(s)]
  BY ConcatProperties
<1>2. DOMAIN s = 1 .. Len(s) /\ DOMAIN (s \o u) = 1 .. Len(s) + Len(u)
  BY <1>1
<1> DEFINE t == s \o u
<1> HIDE DEF t
<1>3. Places(t, A) = Places(s, A)
  <2>1. ASSUME NEW i \in 1 .. Len(s) + Len(u)
        PROVE  t[i] \in A => i \in 1 .. Len(s) /\ s[i] \in A
    <3>1. CASE i <= Len(s)
      BY <1>1, <3>1 DEF t
    <3>2. CASE ~(i <= Len(s))
      <4>1. t[i] = u[i - Len(s)] /\ i - Len(s) \in 1 .. Len(u)
        BY <1>1, <3>2 DEF t
      <4> QED
        BY <4>1
    <3> QED
      BY <3>1, <3>2
  <2>2. \A i \in 1 .. Len(s) : i \in 1 .. Len(s) + Len(u) /\ t[i] = s[i]
    BY <1>1 DEF t
  <2>3. DOMAIN t = 1 .. Len(s) + Len(u)
    BY <1>2 DEF t
  <2> QED
    BY <1>2, <2>1, <2>2, <2>3 DEF Places
<1> QED
  BY <1>3 DEF Hits, t

-----------------------------------------------------------------------------
(* The engine's methods.  Each lemma says what a method changes, so that    *)
(* the proofs about the actions need no definition of it.                   *)

LEMMA FieldTypes ==
    ASSUME NEW e \in EngineType
    PROVE  /\ e.active \in Turns \cup {NoTurn} /\ e.queue \in Seq(Tickets)
           /\ e.quarantine \in BOOLEAN /\ e.interruptSent \in BOOLEAN
           /\ e.loop.phase \in Phases /\ e.loop.iter \in Nat
           /\ e.loop.fails \in 0 .. MaxFailures - 1
           /\ e.pending \subseteq Prompts /\ e.out \in Seq(Message)
           /\ e.reply \in [Tickets -> {"none", "waiting", "ok", "err"}]
           /\ e.answers \in [Prompts -> Nat]
           /\ e.gotError \in BOOLEAN /\ e.metaError \in BOOLEAN
           /\ e.pendingInterrupt \in BOOLEAN /\ e.remembered \in BOOLEAN
BY DEF EngineType

\* The parts of the engine that a method may leave alone.
SameTurn(e, d) == d.active = e.active /\ d.quarantine = e.quarantine /\ d.state = e.state
SameTickets(e, d) == d.queue = e.queue /\ d.reply = e.reply
SamePrompts(e, d) == d.pending = e.pending /\ d.answers = e.answers
SameVerdict(e, d) ==
    /\ d.status = e.status /\ d.gotError = e.gotError /\ d.metaError = e.metaError
    /\ d.outcome = e.outcome

\* What a dispatch leaves alone, whatever it starts.
Untouched(e, d) ==
    d.quarantine = e.quarantine /\ d.metaError = e.metaError /\ SamePrompts(e, d)

\* The loop of e may be another one.
LoopType == [phase : Phases, iter : Nat, fails : 0 .. MaxFailures - 1, text : BOOLEAN]

LEMMA NoLoopType == NoLoop \in LoopType
BY SessionActorAssumption DEF NoLoop, LoopType, Phases

LEMMA NewLoop ==
    ASSUME NEW e \in EngineType, NEW l \in LoopType
    PROVE  [e EXCEPT !.loop = l] \in EngineType
BY DEF EngineType, LoopType

\* Everything but the loop, and everything but the loop and what is written.
Same(e, d) ==
    SameTurn(e, d) /\ SameTickets(e, d) /\ SamePrompts(e, d) /\ SameVerdict(e, d)
SameButLoop(e, d) == Same(e, d) /\ d.out = e.out

LEMMA RalphFailureEffect ==
    ASSUME NEW e \in EngineType
    PROVE  /\ RalphFailure(e) \in EngineType
           /\ SameButLoop(e, RalphFailure(e))
<1>1. CASE e.loop.fails + 1 >= MaxFailures
  <2>1. RalphFailure(e) = [e EXCEPT !.loop = NoLoop]
    BY <1>1 DEF RalphFailure
  <2>2. [e EXCEPT !.loop = NoLoop] \in EngineType
    BY NoLoopType, NewLoop
  <2>3. SameButLoop(e, [e EXCEPT !.loop = NoLoop])
    BY DEF EngineType, SameButLoop, Same, SameTurn, SameTickets, SamePrompts, SameVerdict
  <2> QED
    BY <2>1, <2>2, <2>3
<1>2. CASE ~(e.loop.fails + 1 >= MaxFailures)
  <2> DEFINE d == [e EXCEPT !.loop.fails = @ + 1, !.loop.phase = "waiting"]
  <2>1. RalphFailure(e) = d
    BY <1>2 DEF RalphFailure
  <2>2. e.loop.fails + 1 \in 0 .. MaxFailures - 1
    BY <1>2, FieldTypes, SessionActorAssumption
  <2>3. d \in EngineType
    BY <2>2 DEF EngineType, Phases
  <2>4. SameButLoop(e, d)
    BY DEF EngineType, SameButLoop, Same, SameTurn, SameTickets, SamePrompts, SameVerdict
  <2> QED
    BY <2>1, <2>3, <2>4
<1> QED
  BY <1>1, <1>2

LEMMA PersistEffect ==
    ASSUME NEW e \in EngineType, NEW s \in {"running", "idle"}
    PROVE  \/ PersistIdleRunning(e, s) = e
           \/ PersistIdleRunning(e, s) = [e EXCEPT !.status = s]
BY DEF PersistIdleRunning

LEMMA NewStatus ==
    ASSUME NEW e \in EngineType, NEW s \in {"running", "idle"}
    PROVE  [e EXCEPT !.status = s] \in EngineType
BY DEF EngineType

LEMMA UserLine == \A t \in Turns : Msg("user", t) \in Message
BY DEF Msg, Message

\* A turn that was written is the active one, and the errors of earlier turns are
\* forgotten.
Begun(e, d, turn) ==
    /\ Untouched(e, d)
    /\ d.active = turn /\ d.state = "running" /\ d.outcome = "none" /\ ~d.gotError
    /\ d.status \in {e.status, "running"}
    /\ d.queue = e.queue /\ d.reply = e.reply
    /\ d.out = Append(e.out, Msg("user", turn))

LEMMA BeginTurnEffect ==
    ASSUME NEW e \in EngineType, NEW turn \in Turns
    PROVE  /\ BeginTurn(e, turn) \in EngineType
           /\ Begun(e, BeginTurn(e, turn), turn)
<1> DEFINE d == [e EXCEPT !.out = Append(@, Msg("user", turn)), !.active = turn,
                          !.gotError = FALSE, !.state = "running",
                          !.interrupted = FALSE, !.outcome = "none"]
<1>1. Append(e.out, Msg("user", turn)) \in Seq(Message)
  <2>1. e.out \in Seq(Message) /\ Msg("user", turn) \in Message
    BY FieldTypes, UserLine
  <2> QED
    BY <2>1
<1>2. d \in EngineType
  <2>1. ASSUME NEW o \in Seq(Message)
        PROVE  [e EXCEPT !.out = o, !.active = turn, !.gotError = FALSE, !.state = "running",
                         !.interrupted = FALSE, !.outcome = "none"] \in EngineType
    BY DEF EngineType
  <2> QED
    BY <1>1, <2>1
<1>3. Begun(e, d, turn) /\ d.status = e.status
  BY DEF EngineType, Begun, Untouched, SamePrompts
<1> HIDE DEF d
<1>4. CASE BeginTurn(e, turn) = d
  BY <1>2, <1>3, <1>4
<1>5. CASE BeginTurn(e, turn) = [d EXCEPT !.status = "running"]
  <2>1. [d EXCEPT !.status = "running"] \in EngineType
    BY <1>2, NewStatus
  <2>2. Begun(e, [d EXCEPT !.status = "running"], turn)
    BY <1>2, <1>3 DEF EngineType, Begun, Untouched, SamePrompts
  <2> QED
    BY <1>5, <2>1, <2>2
<1> QED
  BY <1>2, <1>4, <1>5, PersistEffect DEF BeginTurn, d

\* The three ends of a dispatch: the CLI has a turn to do or there is none to give
\* it; a turn is written; the process behind the pipe is gone.
Stays(e, d) ==
    /\ d = e
    /\ \/ e.active # NoTurn \/ e.quarantine
       \/ e.queue = <<>> /\ e.loop.phase # "running"

Starts(e, d, turn) ==
    /\ cli.alive /\ e.active = NoTurn /\ ~e.quarantine
    /\ d.active = turn /\ d.state = "running" /\ d.outcome = "none" /\ ~d.gotError
    /\ d.status \in {e.status, "running"}
    /\ IF turn = Ralph THEN d.queue = e.queue /\ d.reply = e.reply
       ELSE /\ e.queue # <<>> /\ turn = Head(e.queue) /\ d.queue = Tail(e.queue)
            /\ d.reply = [e.reply EXCEPT ![turn] = "ok"]

Fails(e, d) ==
    /\ ~cli.alive /\ e.active = NoTurn /\ ~e.quarantine
    /\ d.active = NoTurn /\ d.state = e.state /\ d.outcome = e.outcome
    /\ d.gotError = e.gotError /\ d.status = e.status
    /\ \/ d.queue = e.queue /\ d.reply = e.reply
       \/ /\ e.queue # <<>> /\ d.queue = Tail(e.queue)
          /\ d.reply = [e.reply EXCEPT ![Head(e.queue)] = "err"]

Dispatched(e, d) ==
    /\ Untouched(e, d)
    /\ \/ Stays(e, d)
       \/ Fails(e, d) /\ d.out = e.out
       \/ \E turn \in Turns : Starts(e, d, turn) /\ d.out = Append(e.out, Msg("user", turn))

LEMMA PausedByUserType == \A phase \in Phases : PausedByUser(phase) \in Phases
BY DEF PausedByUser, Phases

LEMMA ResumedFromType == \A phase \in Phases : ResumedFrom(phase) \in Phases
BY DEF ResumedFrom, Phases

LEMMA StartUserTurnEffect ==
    ASSUME NEW e \in EngineType, e.active = NoTurn, ~e.quarantine, e.queue # <<>>
    PROVE  StartUserTurn(e) \in EngineType /\ Dispatched(e, StartUserTurn(e))
<1> DEFINE t == Head(e.queue)
           popped == [e EXCEPT !.queue = Tail(@), !.loop.phase = PausedByUser(@)]
<1>1. t \in Tickets /\ Tail(e.queue) \in Seq(Tickets)
  BY FieldTypes, HeadTailProperties
<1>2. t \in Turns /\ t # Ralph
  BY <1>1, SessionActorAssumption DEF Turns
<1>3. popped \in EngineType
  <2>1. PausedByUser(e.loop.phase) \in Phases
    BY FieldTypes, PausedByUserType
  <2>2. ASSUME NEW q \in Seq(Tickets), NEW phase \in Phases
        PROVE  [e EXCEPT !.queue = q, !.loop.phase = phase] \in EngineType
    BY DEF EngineType
  <2> QED
    BY <1>1, <2>1, <2>2
<1>4. /\ Untouched(e, popped) /\ popped.queue = Tail(e.queue) /\ popped.reply = e.reply
      /\ popped.active = NoTurn /\ popped.state = e.state /\ popped.outcome = e.outcome
      /\ popped.gotError = e.gotError /\ popped.status = e.status /\ popped.out = e.out
  BY DEF EngineType, Untouched, SamePrompts
<1> HIDE DEF popped
<1>5. ASSUME NEW verdict \in {"ok", "err"}
      PROVE  /\ [popped EXCEPT !.reply[t] = verdict] \in EngineType
             /\ Untouched(e, [popped EXCEPT !.reply[t] = verdict])
             /\ [popped EXCEPT !.reply[t] = verdict].queue = Tail(e.queue)
             /\ [popped EXCEPT !.reply[t] = verdict].reply = [e.reply EXCEPT ![t] = verdict]
             /\ [popped EXCEPT !.reply[t] = verdict].active = NoTurn
             /\ [popped EXCEPT !.reply[t] = verdict].state = e.state
             /\ [popped EXCEPT !.reply[t] = verdict].outcome = e.outcome
             /\ [popped EXCEPT !.reply[t] = verdict].gotError = e.gotError
             /\ [popped EXCEPT !.reply[t] = verdict].status = e.status
             /\ [popped EXCEPT !.reply[t] = verdict].out = e.out
  <2>1. [popped.reply EXCEPT ![t] = verdict] \in [Tickets -> {"none", "waiting", "ok", "err"}]
    BY <1>3, FieldTypes
  <2>2. ASSUME NEW r \in [Tickets -> {"none", "waiting", "ok", "err"}]
        PROVE  [popped EXCEPT !.reply = r] \in EngineType
    BY <1>3 DEF EngineType
  <2>3. [popped EXCEPT !.reply[t] = verdict] \in EngineType
    BY <2>1, <2>2
  <2> QED
    BY <1>3, <1>4, <2>3 DEF EngineType, Untouched, SamePrompts
<1>6. CASE cli.alive
  <2> DEFINE told == [popped EXCEPT !.reply[t] = "ok"]
             d == BeginTurn(told, t)
  <2>1. StartUserTurn(e) = d
    BY <1>6 DEF StartUserTurn, popped
  <2>2. /\ told \in EngineType /\ Untouched(e, told) /\ told.queue = Tail(e.queue)
        /\ told.reply = [e.reply EXCEPT ![t] = "ok"] /\ told.status = e.status
        /\ told.out = e.out
    BY <1>5
  <2> HIDE DEF told
  <2>3. d \in EngineType /\ Begun(told, d, t)
    BY <1>2, <2>2, BeginTurnEffect
  <2> HIDE DEF d
  <2>4. Starts(e, d, t) /\ Untouched(e, d) /\ d.out = Append(e.out, Msg("user", t))
    BY <1>2, <1>6, <2>2, <2>3 DEF Starts, Begun, Untouched, SamePrompts
  <2> QED
    BY <1>2, <2>1, <2>3, <2>4 DEF Dispatched
<1>7. CASE ~cli.alive
  <2> DEFINE d == [popped EXCEPT !.reply[t] = "err"]
  <2>1. StartUserTurn(e) = d
    BY <1>7 DEF StartUserTurn, popped
  <2>2. Fails(e, d) /\ Untouched(e, d) /\ d \in EngineType /\ d.out = e.out
    BY <1>5, <1>7 DEF Fails
  <2> QED
    BY <2>1, <2>2 DEF Dispatched
<1> QED
  BY <1>6, <1>7

LEMMA StartRalphTurnEffect ==
    ASSUME NEW e \in EngineType, e.active = NoTurn, ~e.quarantine
    PROVE  StartRalphTurn(e) \in EngineType /\ Dispatched(e, StartRalphTurn(e))
<1> DEFINE fresh == [e EXCEPT !.loop.phase = "running", !.loop.text = FALSE]
<1>1. fresh \in EngineType /\ SameButLoop(e, fresh)
  BY DEF EngineType, Phases, SameButLoop, Same, SameTurn, SameTickets, SamePrompts, SameVerdict
<1> HIDE DEF fresh
<1>2. Ralph \in Turns
  BY DEF Turns
<1>3. CASE cli.alive
  <2> DEFINE d == BeginTurn(fresh, Ralph)
  <2>1. StartRalphTurn(e) = d
    BY <1>3 DEF StartRalphTurn, fresh
  <2>2. d \in EngineType /\ Begun(fresh, d, Ralph)
    BY <1>1, <1>2, BeginTurnEffect
  <2> HIDE DEF d
  <2>3. Starts(e, d, Ralph) /\ Untouched(e, d) /\ d.out = Append(e.out, Msg("user", Ralph))
    BY <1>1, <1>3, <2>2 DEF Starts, Begun, Untouched, SameButLoop, Same, SameTurn, SameTickets,
          SamePrompts, SameVerdict
  <2> QED
    BY <1>2, <2>1, <2>2, <2>3 DEF Dispatched
<1>4. CASE ~cli.alive
  <2> DEFINE d == RalphFailure(fresh)
  <2>1. StartRalphTurn(e) = d
    BY <1>4 DEF StartRalphTurn, fresh
  <2>2. d \in EngineType /\ SameButLoop(fresh, d)
    BY <1>1, RalphFailureEffect
  <2> HIDE DEF d
  <2>3. Fails(e, d) /\ Untouched(e, d) /\ d.out = e.out
    BY <1>1, <1>4, <2>2 DEF Fails, Untouched, SameButLoop, Same, SameTurn, SameTickets,
          SamePrompts, SameVerdict
  <2> QED
    BY <2>1, <2>2, <2>3 DEF Dispatched
<1> QED
  BY <1>3, <1>4

\* try_dispatch, whatever it finds.
LEMMA TryDispatchEffect ==
    ASSUME NEW e \in EngineType, NEW expired \in BOOLEAN
    PROVE  TryDispatch(e, expired) \in EngineType /\ Dispatched(e, TryDispatch(e, expired))
<1>1. CASE e.active # NoTurn \/ e.quarantine
  BY <1>1 DEF TryDispatch, Dispatched, Stays, Untouched, SamePrompts
<1>2. CASE e.active = NoTurn /\ ~e.quarantine /\ e.queue # <<>>
  BY <1>2, StartUserTurnEffect DEF TryDispatch
<1>3. CASE e.active = NoTurn /\ ~e.quarantine /\ e.queue = <<>>
  <2>1. CASE e.loop.phase = "running" \/ (e.loop.phase = "waiting" /\ expired)
    BY <1>3, <2>1, StartRalphTurnEffect DEF TryDispatch
  <2>2. CASE ~(e.loop.phase = "running" \/ (e.loop.phase = "waiting" /\ expired))
    BY <1>3, <2>2 DEF TryDispatch, Dispatched, Stays, Untouched, SamePrompts
  <2> QED
    BY <1>3, <2>1, <2>2
<1> QED
  BY <1>1, <1>2, <1>3

-----------------------------------------------------------------------------
(* The other methods, and what a handler makes of the engine and of stdin.  *)

Line ==
    {Msg("user", t) : t \in Turns} \cup {Msg("interrupt", NoTurn)}
        \cup {Msg("answer", p) : p \in Prompts}

LEMMA LineType == Line \subseteq Message
<1>1. \A t \in Turns : Msg("user", t) \in Message
  BY UserLine
<1>2. Msg("interrupt", NoTurn) \in Message
  BY DEF Msg, Message
<1>3. \A p \in Prompts : Msg("answer", p) \in Message
  BY DEF Msg, Message
<1> QED
  BY <1>1, <1>2, <1>3 DEF Line

LEMMA NewOut ==
    ASSUME NEW e \in EngineType, NEW o \in Seq(Message)
    PROVE  /\ [e EXCEPT !.out = o] \in EngineType
           /\ [e EXCEPT !.out = o].out = o
           /\ [e EXCEPT !.out = o].loop = e.loop
           /\ Same(e, [e EXCEPT !.out = o])
BY DEF EngineType, Same, SameTurn, SameTickets, SamePrompts, SameVerdict

LEMMA NewOutcome ==
    ASSUME NEW e \in EngineType, NEW r \in {"none", "ok", "error", "swallowed", "timeout"}
    PROVE  [e EXCEPT !.outcome = r] \in EngineType
BY DEF EngineType

LEMMA WriteEffect ==
    ASSUME NEW e \in EngineType, NEW m \in Message
    PROVE  /\ Write(e, m) \in EngineType /\ Same(e, Write(e, m))
           /\ Write(e, m).loop = e.loop
           /\ Write(e, m).out = IF cli.alive THEN Append(e.out, m) ELSE e.out
<1>1. Append(e.out, m) \in Seq(Message)
  BY FieldTypes
<1>2. CASE cli.alive
  <2> DEFINE o == Append(e.out, m)
             d == [e EXCEPT !.out = o]
  <2>1. Write(e, m) = d
    BY <1>2 DEF Write
  <2>2. o \in Seq(Message)
    BY <1>1
  <2>3. d \in EngineType /\ Same(e, d) /\ d.loop = e.loop /\ d.out = o
    <3> HIDE DEF o
    <3> QED
      BY <2>2, NewOut
  <2> HIDE DEF d
  <2> QED
    BY <1>2, <2>1, <2>3
<1>3. CASE ~cli.alive
  BY <1>3 DEF Write, Same, SameTurn, SameTickets, SamePrompts, SameVerdict
<1> QED
  BY <1>2, <1>3

\* The request p of e is answered if there is somebody to answer.
AnswerOf(e, d, p) ==
    /\ SameTurn(e, d) /\ SameTickets(e, d) /\ SameVerdict(e, d)
    /\ d.loop = e.loop /\ d.pending = e.pending
    /\ d.answers = IF cli.alive THEN [e.answers EXCEPT ![p] = @ + 1] ELSE e.answers

LEMMA AnswerEffect ==
    ASSUME NEW e \in EngineType, NEW p \in Prompts
    PROVE  /\ Answer(e, p) \in EngineType /\ AnswerOf(e, Answer(e, p), p)
           /\ Answer(e, p).out = IF cli.alive THEN Append(e.out, Msg("answer", p)) ELSE e.out
<1>1. CASE cli.alive
  <2> DEFINE o == Append(e.out, Msg("answer", p))
             c == [e.answers EXCEPT ![p] = @ + 1]
  <2>1. Answer(e, p) = [e EXCEPT !.out = o, !.answers = c]
    BY <1>1 DEF Answer, EngineType
  <2>2. o \in Seq(Message)
    <3>1. Msg("answer", p) \in Message
      BY DEF Msg, Message
    <3> QED
      BY <3>1, FieldTypes
  <2>3. c \in [Prompts -> Nat]
    BY FieldTypes
  <2> HIDE DEF o, c
  <2> DEFINE a == Answer(e, p)
  <2>4. a = [e EXCEPT !.out = o, !.answers = c]
    BY <2>1
  <2> HIDE DEF a
  <2>5. /\ a \in EngineType /\ a.out = o /\ a.answers = c
        /\ a.pending = e.pending /\ a.loop = e.loop
        /\ SameTurn(e, a) /\ SameTickets(e, a) /\ SameVerdict(e, a)
    BY <2>2, <2>3, <2>4 DEF EngineType, SameTurn, SameTickets, SameVerdict
  <2>6. AnswerOf(e, a, p)
    BY <1>1, <2>5 DEF AnswerOf, c
  <2> QED
    BY <1>1, <2>5, <2>6 DEF a, o
<1>2. CASE ~cli.alive
  BY <1>2 DEF Answer, AnswerOf, SameTurn, SameTickets, SameVerdict
<1> QED
  BY <1>1, <1>2

\* Every queued ticket is told that it failed.
Failed(e, d) ==
    /\ d.queue = <<>>
    /\ d.reply = [t \in Tickets |-> IF Contains(e.queue, t) THEN "err" ELSE e.reply[t]]

LEMMA FailAllEffect ==
    ASSUME NEW e \in EngineType
    PROVE  /\ FailAllPendingReplies(e) \in EngineType
           /\ Failed(e, FailAllPendingReplies(e))
           /\ SameTurn(e, FailAllPendingReplies(e)) /\ SamePrompts(e, FailAllPendingReplies(e))
           /\ SameVerdict(e, FailAllPendingReplies(e))
           /\ FailAllPendingReplies(e).out = e.out
<1> DEFINE r == [t \in Tickets |-> IF Contains(e.queue, t) THEN "err" ELSE e.reply[t]]
<1>1. FailAllPendingReplies(e) = [e EXCEPT !.queue = <<>>, !.reply = r]
  BY DEF FailAllPendingReplies
<1>2. r \in [Tickets -> {"none", "waiting", "ok", "err"}]
  BY FieldTypes
<1>3. <<>> \in Seq(Tickets)
  OBVIOUS
<1> HIDE DEF r
<1> DEFINE d == FailAllPendingReplies(e)
<1>4. d = [e EXCEPT !.queue = <<>>, !.reply = r]
  BY <1>1
<1> HIDE DEF d
<1>5. /\ d \in EngineType /\ d.queue = <<>> /\ d.reply = r /\ d.out = e.out
      /\ SameTurn(e, d) /\ SamePrompts(e, d) /\ SameVerdict(e, d)
  BY <1>2, <1>3, <1>4 DEF EngineType, SameTurn, SamePrompts, SameVerdict
<1> QED
  BY <1>5 DEF Failed, d, r

LEMMA EmitTerminalEffect ==
    ASSUME NEW e \in EngineType, NEW s \in {"completed", "failed", "stopped"}
    PROVE  /\ EmitTerminal(e, s) \in EngineType
           /\ EmitTerminal(e, s).active = e.active
           /\ EmitTerminal(e, s).quarantine = e.quarantine
           /\ SameTickets(e, EmitTerminal(e, s)) /\ SamePrompts(e, EmitTerminal(e, s))
           /\ EmitTerminal(e, s).outcome = e.outcome
           /\ EmitTerminal(e, s).out = e.out
           /\ EmitTerminal(e, s).status = IF e.state = s THEN e.status ELSE s
<1>1. CASE e.state = s
  BY <1>1 DEF EmitTerminal, SameTickets, SamePrompts
<1>2. CASE e.state # s
  BY <1>2 DEF EmitTerminal, EngineType, SameTickets, SamePrompts
<1> QED
  BY <1>1, <1>2

LEMMA RalphOnTurnEndEffect ==
    ASSUME NEW e \in EngineType, NEW turn \in Turns, NEW failed \in BOOLEAN
    PROVE  /\ RalphOnTurnEnd(e, turn, failed) \in EngineType
           /\ SameButLoop(e, RalphOnTurnEnd(e, turn, failed))
<1> DEFINE r == RalphOnTurnEnd(e, turn, failed)
<1>1. CASE r = e
  BY <1>1 DEF SameButLoop, Same, SameTurn, SameTickets, SamePrompts, SameVerdict
<1>2. CASE r = [e EXCEPT !.loop.phase = ResumedFrom(@)]
  <2>1. ResumedFrom(e.loop.phase) \in Phases
    BY FieldTypes, ResumedFromType
  <2>2. ASSUME NEW phase \in Phases
        PROVE  /\ [e EXCEPT !.loop.phase = phase] \in EngineType
               /\ SameButLoop(e, [e EXCEPT !.loop.phase = phase])
    BY DEF EngineType, SameButLoop, Same, SameTurn, SameTickets, SamePrompts, SameVerdict
  <2> QED
    BY <1>2, <2>1, <2>2
<1>3. CASE r = RalphFailure(e)
  BY <1>3, RalphFailureEffect
<1>4. CASE r = [e EXCEPT !.loop = NoLoop]
  <2>1. SameButLoop(e, [e EXCEPT !.loop = NoLoop])
    BY DEF EngineType, SameButLoop, Same, SameTurn, SameTickets, SamePrompts, SameVerdict
  <2> QED
    BY <1>4, <2>1, NoLoopType, NewLoop
<1>5. CASE r = [e EXCEPT !.loop.fails = 0, !.loop.iter = @ + 1]
  <2>1. e.loop.iter + 1 \in Nat /\ 0 \in 0 .. MaxFailures - 1
    BY FieldTypes, SessionActorAssumption
  <2>2. [e EXCEPT !.loop.fails = 0, !.loop.iter = @ + 1] \in EngineType
    BY <2>1 DEF EngineType
  <2>3. SameButLoop(e, [e EXCEPT !.loop.fails = 0, !.loop.iter = @ + 1])
    BY DEF EngineType, SameButLoop, Same, SameTurn, SameTickets, SamePrompts, SameVerdict
  <2> QED
    BY <1>5, <2>2, <2>3
<1> QED
  BY <1>1, <1>2, <1>3, <1>4, <1>5 DEF RalphOnTurnEnd

-----------------------------------------------------------------------------
(* The types that the proofs need: what a pipe or the mailbox may hold, and  *)
(* the few facts about a single state on which the rest depends.             *)

Report ==
    [k : {"result"}, of : Turns, bad : BOOLEAN] \cup {Msg("promise", NoTurn)}
        \cup {Msg("prompt", p) : p \in Prompts} \cup {Msg("withdraw", p) : p \in Prompts}

Order ==
    {Cmd("send", t) : t \in Tickets} \cup [k : {"answer"}, of : Prompts, keep : BOOLEAN]
        \cup {Cmd(k, NoTurn) : k \in {"interrupt", "stop", "ralph", "unralph"}}

CliType ==
    [alive : BOOLEAN, turn : Turns \cup {NoTurn}, open : SUBSET Prompts,
     used : SUBSET Prompts, taken : Seq(Tickets), code : {"none", "zero", "other", "signal"}]

EngineShape == eng \in EngineType /\ eng.out = <<>> /\ (eng.quarantine => eng.active = NoTurn)

CliShape ==
    /\ cli \in CliType /\ (cli.alive <=> cli.code = "none")
    /\ cli.open \subseteq cli.used /\ IsFiniteSet(cli.open)

TypeInv ==
    /\ EngineShape /\ CliShape
    /\ actor \in {"running", "closing", "gone"}
    /\ mailbox \in Seq(Order) /\ stdin \in Seq(Line) /\ stdout \in Seq(Report)
    /\ cards \subseteq Prompts /\ cancelled \in BOOLEAN
    /\ asked \in Seq(Tickets)
    /\ interrupts \in 0 .. MaxInterrupts /\ loops \in 0 .. MaxLoops

\* What a handler may have written.
Wrote(L) ==
    \/ stdin' = stdin
    \/ cli.alive /\ \E l \in L : stdin' = Append(stdin, l)

LEMMA OneLine ==
    ASSUME NEW l \in Line, stdin \in Seq(Line)
    PROVE  stdin \o Append(<<>>, l) = Append(stdin, l)
OBVIOUS

Gathered(n, L) ==
    \/ n.out = <<>>
    \/ cli.alive /\ \E l \in L : n.out = Append(<<>>, l)

LEMMA StepEffect ==
    ASSUME TypeInv, NEW n \in EngineType, NEW L \in SUBSET Line, Step(n), Gathered(n, L)
    PROVE  /\ eng' \in EngineType /\ eng'.out = <<>> /\ eng'.loop = n.loop
           /\ Same(n, eng') /\ Wrote(L)
<1>1. <<>> \in Seq(Message)
  OBVIOUS
<1>2. eng' = [n EXCEPT !.out = <<>>] /\ stdin' = stdin \o n.out
  BY DEF Step
<1>3. /\ eng' \in EngineType /\ eng'.out = <<>> /\ eng'.loop = n.loop /\ Same(n, eng')
  BY <1>1, <1>2, NewOut
<1>4. Wrote(L)
  <2>1. stdin \in Seq(Line)
    BY DEF TypeInv
  <2>2. CASE n.out = <<>>
    BY <1>2, <2>1, <2>2, ConcatEmptySeq DEF Wrote
  <2>3. CASE n.out # <<>>
    BY <1>2, <2>1, <2>3, OneLine DEF Wrote, Gathered
  <2> QED
    BY <2>2, <2>3
<1> QED
  BY <1>3, <1>4

\* A handler that ends in try_dispatch: m is the engine before the dispatch.
Moved(m) ==
    /\ eng' \in EngineType /\ eng'.out = <<>> /\ Untouched(m, eng')
    /\ \/ Stays(m, eng') /\ stdin' = stdin
       \/ Fails(m, eng') /\ stdin' = stdin
       \/ \E turn \in Turns : Starts(m, eng', turn) /\ stdin' = Append(stdin, Msg("user", turn))

LEMMA DispatchStep ==
    ASSUME TypeInv, NEW m \in EngineType, m.out = <<>>, NEW expired \in BOOLEAN,
           Step(TryDispatch(m, expired))
    PROVE  Moved(m)
<1> DEFINE n == TryDispatch(m, expired)
<1>1. n \in EngineType /\ Dispatched(m, n)
  BY TryDispatchEffect
<1>2. Step(n)
  OBVIOUS
<1> HIDE DEF n
<1>3. stdin \in Seq(Line)
  BY DEF TypeInv
<1>4. CASE Stays(m, n)
  <2>1. n.out = <<>>
    BY <1>4 DEF Stays
  <2>2. eng' = n /\ stdin' = stdin
    <3>1. n = [n EXCEPT !.out = <<>>]
      BY <1>1, <2>1 DEF EngineType
    <3> QED
      BY <1>2, <1>3, <2>1, <3>1, ConcatEmptySeq DEF Step
  <2> QED
    BY <1>1, <1>4, <2>1, <2>2 DEF Moved, Dispatched
<1>5. CASE Fails(m, n) /\ n.out = m.out
  <2>1. Gathered(n, Line) /\ Line \in SUBSET Line
    BY <1>5 DEF Gathered
  <2>2. /\ eng' \in EngineType /\ eng'.out = <<>> /\ Same(n, eng')
        /\ Wrote(Line)
    BY <1>1, <1>2, <2>1, StepEffect
  <2> QED
    BY <1>1, <1>5, <2>2
       DEF Moved, Dispatched, Fails, Untouched, Same, SameTurn, SameTickets, SamePrompts,
           SameVerdict, Wrote
<1>6. ASSUME NEW turn \in Turns, Starts(m, n, turn), n.out = Append(m.out, Msg("user", turn))
      PROVE  Moved(m)
  <2>1. n.out = Append(<<>>, Msg("user", turn)) /\ Msg("user", turn) \in Line /\ cli.alive
    BY <1>6 DEF Line, Starts
  <2>2. /\ eng' \in EngineType /\ eng'.out = <<>> /\ Same(n, eng')
        /\ Wrote({Msg("user", turn)})
    <3>1. Gathered(n, {Msg("user", turn)}) /\ {Msg("user", turn)} \in SUBSET Line
      BY <2>1 DEF Gathered
    <3> QED
      BY <1>1, <1>2, <3>1, StepEffect
  <2>3. stdin' = Append(stdin, Msg("user", turn))
    BY <1>2, <1>3, <2>1, OneLine DEF Step
  <2> QED
    BY <1>1, <1>6, <2>2, <2>3
       DEF Moved, Dispatched, Starts, Untouched, Same, SameTurn, SameTickets, SamePrompts,
           SameVerdict
<1> QED
  BY <1>1, <1>4, <1>5, <1>6 DEF Dispatched

LEMMA PlainStep ==
    ASSUME TypeInv, NEW n \in EngineType, n.out = <<>>, Step(n)
    PROVE  eng' = n /\ stdin' = stdin
<1>1. stdin \in Seq(Line)
  BY DEF TypeInv
<1>2. [n EXCEPT !.out = <<>>] = n
  BY DEF EngineType
<1> QED
  BY <1>1, <1>2, ConcatEmptySeq DEF Step

LEMMA AnswerStep ==
    ASSUME TypeInv, NEW m \in EngineType, m.out = <<>>, NEW p \in Prompts, Step(Answer(m, p))
    PROVE  /\ eng' \in EngineType /\ eng'.out = <<>> /\ AnswerOf(m, eng', p)
           /\ stdin' = IF cli.alive THEN Append(stdin, Msg("answer", p)) ELSE stdin
<1> DEFINE n == Answer(m, p)
<1>1. /\ n \in EngineType /\ AnswerOf(m, n, p)
      /\ n.out = IF cli.alive THEN Append(<<>>, Msg("answer", p)) ELSE <<>>
  BY AnswerEffect
<1>2. Step(n)
  OBVIOUS
<1> HIDE DEF n
<1>3. Msg("answer", p) \in Line /\ stdin \in Seq(Line)
  BY DEF Line, TypeInv
<1>4. Gathered(n, Line)
  BY <1>1, <1>3 DEF Gathered
<1>5. /\ eng' \in EngineType /\ eng'.out = <<>> /\ Same(n, eng') /\ eng'.loop = n.loop
  BY <1>1, <1>2, <1>4, StepEffect
<1>6. AnswerOf(m, eng', p)
  BY <1>1, <1>5 DEF AnswerOf, Same, SameTurn, SameTickets, SamePrompts, SameVerdict
<1>7. stdin' = stdin \o n.out
  BY <1>2 DEF Step
<1>8. stdin' = IF cli.alive THEN Append(stdin, Msg("answer", p)) ELSE stdin
  BY <1>1, <1>3, <1>7, OneLine, ConcatEmptySeq
<1> QED
  BY <1>5, <1>6, <1>8

-----------------------------------------------------------------------------
(* What each handler of the actor does.                                     *)

LEMMA EngineFacts ==
    ASSUME TypeInv
    PROVE  eng \in EngineType /\ eng.out = <<>> /\ (eng.quarantine => eng.active = NoTurn)
BY DEF TypeInv, EngineShape

LEMMA ReceiveEffect ==
    ASSUME TypeInv, NEW k, Receive(k)
    PROVE  /\ mailbox # <<>> /\ Head(mailbox) \in Order /\ Head(mailbox).k = k
           /\ mailbox' = Tail(mailbox) /\ mailbox' \in Seq(Order)
<1>1. mailbox \in Seq(Order)
  BY DEF TypeInv
<1> QED
  BY <1>1, HeadTailProperties DEF Receive

LEMMA OrderKinds ==
    ASSUME NEW c \in Order
    PROVE  /\ c.k = "send" => \E t \in Tickets : c = Cmd("send", t)
           /\ c.k = "answer" => c.of \in Prompts /\ c.keep \in BOOLEAN
BY DEF Order, Cmd

LEMMA ReadStdoutEffect ==
    ASSUME TypeInv, NEW k, ReadStdout(k)
    PROVE  /\ stdout # <<>> /\ Head(stdout) \in Report /\ Head(stdout).k = k
           /\ stdout' = Tail(stdout) /\ stdout' \in Seq(Report)
<1>1. stdout \in Seq(Report)
  BY DEF TypeInv
<1> QED
  BY <1>1, HeadTailProperties DEF ReadStdout

LEMMA ReportKinds ==
    ASSUME NEW r \in Report
    PROVE  /\ r.k = "result" => r.bad \in BOOLEAN
           /\ r.k = "prompt" => \E p \in Prompts : r = Msg("prompt", p)
           /\ r.k = "withdraw" => \E p \in Prompts : r = Msg("withdraw", p)
BY DEF Report, Msg

\* The engine with one more ticket in the queue.
Queued(m, t) ==
    /\ SameTurn(eng, m) /\ SamePrompts(eng, m) /\ SameVerdict(eng, m)
    /\ m.loop = eng.loop /\ m.reply = eng.reply /\ m.queue = Append(eng.queue, t)

LEMMA HandleSendMessageEffect ==
    ASSUME TypeInv, NEW expired \in BOOLEAN, HandleSendMessage(expired)
    PROVE  \E t \in Tickets, m \in EngineType :
              /\ Head(mailbox) = Cmd("send", t)
              /\ Queued(m, t) /\ m.out = <<>> /\ Moved(m)
<1>1. Receive("send")
  BY DEF HandleSendMessage
<1>2. PICK t \in Tickets : Head(mailbox) = Cmd("send", t)
  BY <1>1, ReceiveEffect, OrderKinds
<1>3. Head(mailbox).of = t
  BY <1>2 DEF Cmd
<1> DEFINE q == Append(eng.queue, t)
           m == [eng EXCEPT !.queue = q]
<1>4. q \in Seq(Tickets)
  BY EngineFacts, FieldTypes
<1>5. Step(TryDispatch(m, expired))
  BY <1>3 DEF HandleSendMessage
<1> HIDE DEF q
<1>6. m \in EngineType /\ m.out = <<>> /\ m.queue = q /\ m.loop = eng.loop
      /\ m.reply = eng.reply /\ SameTurn(eng, m) /\ SamePrompts(eng, m) /\ SameVerdict(eng, m)
  BY <1>4, EngineFacts DEF EngineType, SameTurn, SamePrompts, SameVerdict
<1> HIDE DEF m
<1>7. Moved(m)
  BY <1>5, <1>6, DispatchStep
<1>8. Queued(m, t)
  BY <1>6 DEF Queued, q
<1> QED
  BY <1>2, <1>6, <1>7, <1>8

\* An interrupt is written if there is somebody to interrupt; nothing else.
Interrupts ==
    /\ eng' \in EngineType /\ eng'.out = <<>> /\ Same(eng, eng') /\ eng'.loop = eng.loop
    /\ Wrote({Msg("interrupt", NoTurn)})

LEMMA InterruptWritten ==
    ASSUME TypeInv, NEW m \in EngineType, m.out = <<>>, Same(eng, m), m.loop = eng.loop,
           Step(Write(m, Msg("interrupt", NoTurn)))
    PROVE  Interrupts
<1> DEFINE l == Msg("interrupt", NoTurn)
           n == Write(m, l)
<1>1. l \in Line /\ l \in Message /\ {l} \in SUBSET Line
  BY LineType DEF Line
<1>2. Step(n)
  OBVIOUS
<1> HIDE DEF l
<1>3. /\ n \in EngineType /\ Same(m, n) /\ n.loop = m.loop
      /\ n.out = IF cli.alive THEN Append(<<>>, l) ELSE <<>>
  BY <1>1, WriteEffect
<1> HIDE DEF n
<1>4. Gathered(n, {l})
  BY <1>3 DEF Gathered
<1>5. /\ eng' \in EngineType /\ eng'.out = <<>> /\ Same(n, eng') /\ eng'.loop = n.loop
      /\ Wrote({l})
  BY <1>1, <1>2, <1>3, <1>4, StepEffect
<1>6. Same(eng, eng')
  BY <1>3, <1>5 DEF Same, SameTurn, SameTickets, SamePrompts, SameVerdict
<1> QED
  BY <1>3, <1>5, <1>6 DEF Interrupts, l

LEMMA HandleInterruptEffect ==
    ASSUME TypeInv, HandleInterrupt
    PROVE  Interrupts
<1> DEFINE m == [eng EXCEPT !.pendingInterrupt = TRUE, !.interrupted = eng.active # NoTurn]
<1>1. m \in EngineType /\ m.out = <<>> /\ m.loop = eng.loop /\ Same(eng, m)
  BY EngineFacts DEF EngineType, Same, SameTurn, SameTickets, SamePrompts, SameVerdict
<1>2. Step(Write(m, Msg("interrupt", NoTurn)))
  BY DEF HandleInterrupt
<1> HIDE DEF m
<1> QED
  BY <1>1, <1>2, InterruptWritten

LEMMA QuarantineInterruptEffect ==
    ASSUME TypeInv, QuarantineInterrupt
    PROVE  Interrupts
<1> DEFINE m == [eng EXCEPT !.interruptSent = TRUE]
<1>1. m \in EngineType /\ m.out = <<>> /\ m.loop = eng.loop /\ Same(eng, m)
  BY EngineFacts DEF EngineType, Same, SameTurn, SameTickets, SamePrompts, SameVerdict
<1>2. Step(Write(m, Msg("interrupt", NoTurn)))
  BY DEF QuarantineInterrupt, SendInterruptToCli
<1> HIDE DEF m
<1> QED
  BY <1>1, <1>2, InterruptWritten

\* The handler leaves everything alone but the prompts.
Aside ==
    /\ eng' \in EngineType /\ eng'.out = <<>> /\ eng'.loop = eng.loop
    /\ SameTurn(eng, eng') /\ SameTickets(eng, eng') /\ SameVerdict(eng, eng')

Answered(p) ==
    IF cli.alive
    THEN /\ eng'.answers = [eng.answers EXCEPT ![p] = @ + 1]
         /\ stdin' = Append(stdin, Msg("answer", p))
    ELSE eng'.answers = eng.answers /\ stdin' = stdin

LEMMA HandleResponseEffect ==
    ASSUME TypeInv, HandleResponse
    PROVE  \E p \in Prompts :
              /\ Head(mailbox).k = "answer" /\ Head(mailbox).of = p /\ Aside
              /\ \/ /\ p \in eng.pending /\ eng'.pending = eng.pending \ {p} /\ Answered(p)
                    /\ cards' = cards \ {p}
                 \/ p \notin eng.pending /\ eng' = eng /\ stdin' = stdin /\ cards' = cards
<1> DEFINE c == Head(mailbox)
           p == c.of
<1>1. Receive("answer")
  BY DEF HandleResponse
<1>2. c.k = "answer" /\ p \in Prompts /\ c.keep \in BOOLEAN
  BY <1>1, ReceiveEffect, OrderKinds
<1>3. CASE p \in eng.pending
  <2> DEFINE left == eng.pending \ {p}
             kept == eng.remembered \/ (c.keep /\ c.of \in Permissions)
             m == [eng EXCEPT !.pending = left, !.remembered = kept]
  <2>1. Step(Answer(m, p)) /\ cards' = cards \ {p}
    BY <1>3, EngineFacts DEF HandleResponse, EngineType
  <2>2. left \in SUBSET Prompts /\ kept \in BOOLEAN
    BY <1>2, EngineFacts, FieldTypes
  <2> HIDE DEF left, kept, p, c
  <2>3. /\ m \in EngineType /\ m.out = <<>> /\ m.loop = eng.loop /\ m.answers = eng.answers
        /\ m.pending = left
        /\ SameTurn(eng, m) /\ SameTickets(eng, m) /\ SameVerdict(eng, m)
    BY <2>2, EngineFacts DEF EngineType, SameTurn, SameTickets, SameVerdict
  <2> HIDE DEF m
  <2>4. /\ eng' \in EngineType /\ eng'.out = <<>> /\ AnswerOf(m, eng', p)
        /\ stdin' = IF cli.alive THEN Append(stdin, Msg("answer", p)) ELSE stdin
    BY <1>2, <2>1, <2>3, AnswerStep
  <2>5. Aside /\ Answered(p) /\ eng'.pending = eng.pending \ {p}
    BY <2>3, <2>4
       DEF Aside, Answered, AnswerOf, SameTurn, SameTickets, SameVerdict, left
  <2> QED
    BY <1>2, <1>3, <2>1, <2>5 DEF p, c
<1>4. CASE p \notin eng.pending
  <2>1. Step(eng) /\ cards' = cards
    BY <1>4 DEF HandleResponse
  <2>2. eng' = eng /\ stdin' = stdin
    BY <2>1, EngineFacts, PlainStep
  <2>3. Aside
    BY <2>2, EngineFacts DEF Aside, SameTurn, SameTickets, SameVerdict
  <2> QED
    BY <1>2, <1>4, <2>1, <2>2, <2>3
<1> QED
  BY <1>3, <1>4

LEMMA ReadPromptEffect ==
    ASSUME TypeInv, ReadPrompt
    PROVE  \E p \in Prompts :
              /\ Head(stdout) = Msg("prompt", p) /\ Aside
              /\ \/ eng'.pending = eng.pending /\ Answered(p) /\ cards' = cards
                 \/ /\ eng'.pending = eng.pending \cup {p} /\ eng'.answers = eng.answers
                    /\ stdin' = stdin /\ cards' = cards \cup {p}
<1>1. ReadStdout("prompt")
  BY DEF ReadPrompt
<1>2. PICK p \in Prompts : Head(stdout) = Msg("prompt", p)
  BY <1>1, ReadStdoutEffect, ReportKinds
<1>3. Head(stdout).of = p
  BY <1>2 DEF Msg
<1>4. CASE eng.quarantine \/ (eng.remembered /\ p \in Permissions)
  <2>1. Step(Answer(eng, p)) /\ cards' = cards
    BY <1>3, <1>4 DEF ReadPrompt, AnswersItself
  <2>2. /\ eng' \in EngineType /\ eng'.out = <<>> /\ AnswerOf(eng, eng', p)
        /\ stdin' = IF cli.alive THEN Append(stdin, Msg("answer", p)) ELSE stdin
    BY <2>1, EngineFacts, AnswerStep
  <2>3. Aside /\ Answered(p) /\ eng'.pending = eng.pending
    BY <2>2 DEF Aside, Answered, AnswerOf
  <2> QED
    BY <1>2, <2>1, <2>3
<1>5. CASE ~(eng.quarantine \/ (eng.remembered /\ p \in Permissions))
  <2> DEFINE more == eng.pending \cup {p}
             n == [eng EXCEPT !.pending = more]
  <2>1. Step(n) /\ cards' = cards \cup {p}
    BY <1>3, <1>5 DEF ReadPrompt, AnswersItself, Prompted
  <2>2. more \in SUBSET Prompts
    BY EngineFacts, FieldTypes
  <2> HIDE DEF more
  <2>3. /\ n \in EngineType /\ n.out = <<>> /\ n.loop = eng.loop /\ n.answers = eng.answers
        /\ n.pending = more
        /\ SameTurn(eng, n) /\ SameTickets(eng, n) /\ SameVerdict(eng, n)
    BY <2>2, EngineFacts DEF EngineType, SameTurn, SameTickets, SameVerdict
  <2> HIDE DEF n
  <2>4. eng' = n /\ stdin' = stdin
    BY <2>1, <2>3, PlainStep
  <2>5. Aside
    BY <2>3, <2>4 DEF Aside
  <2> QED
    BY <1>2, <2>1, <2>3, <2>4, <2>5 DEF more
<1> QED
  BY <1>4, <1>5

\* A promise is heard on a route that no turn takes: nothing changes.
LEMMA ReadPromiseEffect ==
    ASSUME TypeInv, ReadPromise
    PROVE  eng' = eng /\ stdin' = stdin
<1>1. RecordText(eng) = eng
  BY EngineFacts, FieldTypes DEF RecordText, IsInternalTurn
<1>2. Step(eng)
  BY <1>1 DEF ReadPromise
<1> QED
  BY <1>2, EngineFacts, PlainStep

\* Only the loop changes, and it does not start to run.
LoopOnly ==
    /\ eng' \in EngineType /\ eng'.out = <<>> /\ Same(eng, eng') /\ stdin' = stdin
    /\ eng'.loop.phase = "running" => eng.loop.phase = "running"

LEMMA HandleCancelRalphEffect ==
    ASSUME TypeInv, HandleCancelRalph
    PROVE  LoopOnly
<1>1. CASE Step(eng)
  <2>1. eng' = eng /\ stdin' = stdin
    BY <1>1, EngineFacts, PlainStep
  <2> QED
    BY <2>1, EngineFacts
       DEF LoopOnly, Same, SameTurn, SameTickets, SamePrompts, SameVerdict
<1>2. CASE Step([eng EXCEPT !.loop = NoLoop])
  <2> DEFINE n == [eng EXCEPT !.loop = NoLoop]
  <2>1. n \in EngineType
    BY EngineFacts, NoLoopType, NewLoop
  <2>2. n.out = <<>> /\ Same(eng, n) /\ n.loop = NoLoop
    BY EngineFacts DEF EngineType, Same, SameTurn, SameTickets, SamePrompts, SameVerdict
  <2> HIDE DEF n
  <2>3. eng' = n /\ stdin' = stdin
    BY <1>2, <2>1, <2>2, PlainStep DEF n
  <2> QED
    BY <2>1, <2>2, <2>3 DEF LoopOnly, NoLoop
<1>3. CASE Step([eng EXCEPT !.loop.phase = "cancelPending"])
  <2> DEFINE n == [eng EXCEPT !.loop.phase = "cancelPending"]
  <2>1. /\ n \in EngineType /\ n.out = <<>> /\ Same(eng, n)
        /\ n.loop.phase = "cancelPending"
    BY EngineFacts
       DEF EngineType, Phases, Same, SameTurn, SameTickets, SamePrompts, SameVerdict
  <2> HIDE DEF n
  <2>2. eng' = n /\ stdin' = stdin
    BY <1>3, <2>1, PlainStep DEF n
  <2> QED
    BY <2>1, <2>2 DEF LoopOnly
<1> QED
  BY <1>1, <1>2, <1>3 DEF HandleCancelRalph

LEMMA HandleStartRalphEffect ==
    ASSUME TypeInv, HandleStartRalph
    PROVE  \/ eng' = eng /\ stdin' = stdin
           \/ \E m \in EngineType : m.out = <<>> /\ Same(eng, m) /\ Moved(m)
<1>1. CASE Step(eng)
  BY <1>1, EngineFacts, PlainStep
<1> DEFINE l == [NoLoop EXCEPT !.phase = "running"]
           m == [eng EXCEPT !.loop = l]
<1>2. CASE Step(TryDispatch(m, FALSE))
  <2>1. l \in LoopType
    BY NoLoopType DEF LoopType, Phases
  <2>2. m \in EngineType
    BY <2>1, EngineFacts, NewLoop
  <2> HIDE DEF l
  <2>3. m.out = <<>> /\ Same(eng, m)
    BY EngineFacts DEF EngineType, Same, SameTurn, SameTickets, SamePrompts, SameVerdict
  <2> HIDE DEF m
  <2> QED
    BY <1>2, <2>2, <2>3, DispatchStep
<1> QED
  BY <1>1, <1>2 DEF HandleStartRalph

LEMMA RetryRalphEffect ==
    ASSUME TypeInv, RetryRalph
    PROVE  Moved(eng)
BY EngineFacts, DispatchStep DEF RetryRalph

\* The turn of e is over: m is the engine before the next one is dispatched.
TurnOver(e, m) ==
    /\ m \in EngineType /\ m.out = <<>> /\ m.active = NoTurn /\ ~m.quarantine
    /\ m.state = "idle" /\ SameTickets(e, m) /\ SamePrompts(e, m)
    /\ m.status \in {e.status, "idle"}
    /\ m.outcome # "timeout" /\ m.metaError = m.gotError
    /\ ~e.gotError => (m.gotError <=> m.outcome = "error")

LEMMA PersistIdleEffect ==
    ASSUME NEW e \in EngineType
    PROVE  /\ PersistIdleRunning(e, "idle") \in EngineType
           /\ SameTurn(e, PersistIdleRunning(e, "idle"))
           /\ SameTickets(e, PersistIdleRunning(e, "idle"))
           /\ SamePrompts(e, PersistIdleRunning(e, "idle"))
           /\ PersistIdleRunning(e, "idle").status \in {e.status, "idle"}
           /\ PersistIdleRunning(e, "idle").outcome = e.outcome
           /\ PersistIdleRunning(e, "idle").gotError = e.gotError
           /\ PersistIdleRunning(e, "idle").metaError = e.metaError
           /\ PersistIdleRunning(e, "idle").out = e.out
<1>1. CASE PersistIdleRunning(e, "idle") = e
  BY <1>1 DEF SameTurn, SameTickets, SamePrompts
<1>2. CASE PersistIdleRunning(e, "idle") = [e EXCEPT !.status = "idle"]
  <2> DEFINE d == PersistIdleRunning(e, "idle")
  <2>1. d = [e EXCEPT !.status = "idle"]
    BY <1>2
  <2> HIDE DEF d
  <2>2. d \in EngineType
    BY <2>1, NewStatus
  <2>3. /\ SameTurn(e, d) /\ SameTickets(e, d) /\ SamePrompts(e, d) /\ d.status = "idle"
        /\ d.outcome = e.outcome /\ d.gotError = e.gotError /\ d.metaError = e.metaError
        /\ d.out = e.out
    BY <2>1 DEF EngineType, SameTurn, SameTickets, SamePrompts
  <2> QED
    BY <2>2, <2>3 DEF d
<1> QED
  BY <1>1, <1>2, PersistEffect

\* The result of a turn: as TurnResult reads it when a turn is active.
LEMMA TurnResultEffect ==
    ASSUME TypeInv, ~eng.quarantine, NEW bad \in BOOLEAN, NEW expired \in BOOLEAN,
           Step(TurnResult(eng, bad, expired))
    PROVE  \E m : /\ TurnOver(eng, m)
                  /\ IF eng.active = NoTurn THEN eng' = m /\ stdin' = stdin ELSE Moved(m)
<1> DEFINE error == bad /\ ~eng.pendingInterrupt
           known == (eng.gotError \/ bad) /\ ~eng.pendingInterrupt
           verdict == CASE error -> "error"
                        [] ~error /\ bad /\ ~eng.interrupted -> "swallowed"
                        [] OTHER -> "ok"
           told == [eng EXCEPT !.pendingInterrupt = FALSE, !.state = "idle",
                               !.gotError = known, !.outcome = verdict]
           idle == PersistIdleRunning(told, "idle")
           kept == [idle EXCEPT !.metaError = idle.gotError]
<1>1. /\ error \in BOOLEAN /\ known \in BOOLEAN
      /\ verdict \in {"error", "swallowed", "ok"} /\ (verdict = "error" <=> error)
      /\ ~eng.gotError => (known <=> verdict = "error")
  BY EngineFacts, FieldTypes
<1>2. Step(IF eng.active = NoTurn THEN kept
           ELSE TryDispatch(RalphOnTurnEnd([kept EXCEPT !.active = NoTurn],
                                           eng.active, error), expired))
  BY DEF TurnResult
<1> HIDE DEF error, known, verdict
<1>3. /\ told \in EngineType /\ told.out = <<>> /\ told.active = eng.active
      /\ ~told.quarantine /\ told.state = "idle" /\ SameTickets(eng, told)
      /\ SamePrompts(eng, told) /\ told.status = eng.status
      /\ told.gotError = known /\ told.outcome = verdict
  BY <1>1, EngineFacts DEF EngineType, SameTickets, SamePrompts
<1> HIDE DEF told
<1>4. /\ idle \in EngineType /\ idle.out = <<>> /\ idle.active = eng.active
      /\ ~idle.quarantine /\ idle.state = "idle" /\ SameTickets(eng, idle)
      /\ SamePrompts(eng, idle) /\ idle.status \in {eng.status, "idle"}
      /\ idle.gotError = known /\ idle.outcome = verdict
  BY <1>3, PersistIdleEffect DEF SameTurn, SameTickets, SamePrompts
<1> HIDE DEF idle
<1>5. idle.gotError \in BOOLEAN
  BY <1>4, FieldTypes
<1>6. /\ kept \in EngineType /\ kept.out = <<>> /\ kept.active = eng.active
      /\ ~kept.quarantine /\ kept.state = "idle" /\ SameTickets(eng, kept)
      /\ SamePrompts(eng, kept) /\ kept.status \in {eng.status, "idle"}
      /\ kept.gotError = known /\ kept.outcome = verdict /\ kept.metaError = known
  BY <1>4, <1>5 DEF EngineType, SameTickets, SamePrompts
<1> HIDE DEF kept
<1>7. CASE eng.active = NoTurn
  <2>1. TurnOver(eng, kept)
    BY <1>1, <1>6, <1>7 DEF TurnOver
  <2>2. eng' = kept /\ stdin' = stdin
    BY <1>2, <1>6, <1>7, PlainStep
  <2> QED
    BY <1>7, <2>1, <2>2
<1>8. CASE eng.active # NoTurn
  <2> DEFINE free == [kept EXCEPT !.active = NoTurn]
             m == RalphOnTurnEnd(free, eng.active, error)
  <2>1. Step(TryDispatch(m, expired)) /\ eng.active \in Turns
    BY <1>2, <1>8, EngineFacts, FieldTypes
  <2>2. /\ free \in EngineType /\ free.out = <<>> /\ free.active = NoTurn
        /\ ~free.quarantine /\ free.state = "idle" /\ SameTickets(eng, free)
        /\ SamePrompts(eng, free) /\ free.status \in {eng.status, "idle"}
        /\ free.gotError = known /\ free.outcome = verdict /\ free.metaError = known
    BY <1>6 DEF EngineType, SameTickets, SamePrompts
  <2> HIDE DEF free
  <2>3. m \in EngineType /\ SameButLoop(free, m)
    BY <1>1, <2>1, <2>2, RalphOnTurnEndEffect
  <2> HIDE DEF m
  <2>4. TurnOver(eng, m)
    BY <1>1, <2>2, <2>3
       DEF TurnOver, SameButLoop, Same, SameTurn, SameTickets, SamePrompts, SameVerdict
  <2>5. Moved(m)
    BY <2>1, <2>3, <2>4, DispatchStep DEF TurnOver
  <2> QED
    BY <1>8, <2>4, <2>5
<1> QED
  BY <1>7, <1>8

LEMMA LiftQuarantineEffect ==
    ASSUME TypeInv, eng.quarantine, NEW expired \in BOOLEAN,
           Step(LiftQuarantine(eng, expired))
    PROVE  \E m : TurnOver(eng, m) /\ Moved(m)
<1> DEFINE free == [eng EXCEPT !.quarantine = FALSE, !.interruptSent = FALSE,
                               !.pendingInterrupt = FALSE, !.gotError = FALSE,
                               !.state = "idle", !.metaError = FALSE, !.outcome = "ok"]
           m == PersistIdleRunning(free, "idle")
<1>1. Step(TryDispatch(m, expired))
  BY DEF LiftQuarantine
<1>2. /\ free \in EngineType /\ free.out = <<>> /\ free.active = NoTurn
      /\ ~free.quarantine /\ free.state = "idle" /\ SameTickets(eng, free)
      /\ SamePrompts(eng, free) /\ free.status = eng.status
      /\ ~free.gotError /\ free.outcome = "ok" /\ ~free.metaError
  BY EngineFacts DEF EngineType, SameTickets, SamePrompts
<1> HIDE DEF free
<1>3. /\ m \in EngineType /\ m.out = <<>> /\ m.active = NoTurn /\ ~m.quarantine
      /\ m.state = "idle" /\ SameTickets(eng, m) /\ SamePrompts(eng, m)
      /\ m.status \in {eng.status, "idle"} /\ ~m.gotError /\ m.outcome = "ok" /\ ~m.metaError
  BY <1>2, PersistIdleEffect DEF SameTurn, SameTickets, SamePrompts
<1> HIDE DEF m
<1>4. m.gotError \in BOOLEAN /\ m.metaError \in BOOLEAN
  BY <1>3, FieldTypes
<1>5. TurnOver(eng, m)
  BY <1>3, <1>4 DEF TurnOver
<1>6. Moved(m)
  BY <1>1, <1>3, DispatchStep
<1> QED
  BY <1>5, <1>6

LEMMA ReadResultEffect ==
    ASSUME TypeInv, NEW expired \in BOOLEAN, ReadResult(expired)
    PROVE  \E m : /\ TurnOver(eng, m)
                  /\ IF eng.active = NoTurn /\ ~eng.quarantine
                     THEN eng' = m /\ stdin' = stdin ELSE Moved(m)
<1>1. ReadStdout("result")
  BY DEF ReadResult
<1>2. Head(stdout).bad \in BOOLEAN
  BY <1>1, ReadStdoutEffect, ReportKinds
<1>3. CASE eng.quarantine
  <2>1. Step(LiftQuarantine(eng, expired))
    BY <1>3 DEF ReadResult
  <2> QED
    BY <1>3, <2>1, LiftQuarantineEffect
<1>4. CASE ~eng.quarantine
  <2>1. Step(TurnResult(eng, Head(stdout).bad, expired))
    BY <1>4 DEF ReadResult
  <2> QED
    BY <1>2, <1>4, <2>1, TurnResultEffect
<1> QED
  BY <1>3, <1>4

LEMMA HardTimeoutEffect ==
    ASSUME TypeInv, HardTimeout
    PROVE  /\ eng' \in EngineType /\ eng'.out = <<>> /\ stdin' = stdin
           /\ eng.active # NoTurn /\ ~eng.quarantine
           /\ eng'.active = NoTurn /\ eng'.quarantine /\ eng'.state = eng.state
           /\ SameTickets(eng, eng') /\ SamePrompts(eng, eng') /\ SameVerdict(eng, eng')
<1> DEFINE n == [eng EXCEPT !.active = NoTurn, !.quarantine = TRUE, !.interruptSent = FALSE]
<1>1. /\ n \in EngineType /\ n.out = <<>> /\ n.active = NoTurn /\ n.quarantine
      /\ n.state = eng.state
      /\ SameTickets(eng, n) /\ SamePrompts(eng, n) /\ SameVerdict(eng, n)
  BY EngineFacts DEF EngineType, SameTickets, SamePrompts, SameVerdict
<1>2. Step(n)
  BY DEF HardTimeout
<1> HIDE DEF n
<1>3. eng' = n /\ stdin' = stdin
  BY <1>1, <1>2, PlainStep
<1> QED
  BY <1>1, <1>3 DEF HardTimeout, Armed

\* The actor gives up: nothing is written, and what was queued has failed.
GivesUp ==
    /\ eng' \in EngineType /\ eng'.out = <<>> /\ (eng'.quarantine => eng'.active = NoTurn)
    /\ Failed(eng, eng') /\ SamePrompts(eng, eng') /\ stdin' = stdin /\ actor' = "closing"

LEMMA QuarantineKillEffect ==
    ASSUME TypeInv, QuarantineKill
    PROVE  /\ GivesUp /\ eng'.outcome = "timeout"
           /\ eng'.status = IF eng.state = "failed" THEN eng.status ELSE "failed"
           /\ ~cli'.alive
<1> DEFINE e == EmitTerminal(eng, "failed")
           f == FailAllPendingReplies(e)
           n == [f EXCEPT !.outcome = "timeout"]
<1>1. /\ e \in EngineType /\ e.active = eng.active /\ e.quarantine = eng.quarantine
      /\ SameTickets(eng, e) /\ SamePrompts(eng, e) /\ e.out = <<>>
      /\ e.status = IF eng.state = "failed" THEN eng.status ELSE "failed"
  BY EngineFacts, EmitTerminalEffect
<1>2. Step(n) /\ actor' = "closing"
  BY DEF QuarantineKill
<1> HIDE DEF e
<1>3. /\ f \in EngineType /\ Failed(e, f) /\ SameTurn(e, f) /\ SamePrompts(e, f)
      /\ SameVerdict(e, f) /\ f.out = e.out
  BY <1>1, FailAllEffect
<1> HIDE DEF f
<1>4. /\ n.active = f.active /\ n.quarantine = f.quarantine /\ SameTickets(f, n)
      /\ SamePrompts(f, n) /\ n.status = f.status /\ n.outcome = "timeout" /\ n.out = f.out
  BY <1>3 DEF EngineType, SameTickets, SamePrompts
<1>5. n \in EngineType
  BY <1>3, NewOutcome
<1> HIDE DEF n
<1>6. eng' = n /\ stdin' = stdin
  BY <1>1, <1>2, <1>3, <1>4, <1>5, PlainStep
<1>7. Failed(eng, n)
  BY <1>1, <1>3, <1>4 DEF Failed, SameTickets
<1>8. GivesUp
  BY <1>1, <1>2, <1>3, <1>4, <1>5, <1>6, <1>7, EngineFacts
     DEF GivesUp, SameTurn, SamePrompts
<1>9. ~cli'.alive
  BY DEF QuarantineKill, TypeInv, CliShape, CliType
<1> QED
  BY <1>1, <1>3, <1>4, <1>6, <1>8, <1>9 DEF SameVerdict

\* handle_eof: the verdict on the run.
LEMMA HandleEofEffect ==
    ASSUME TypeInv, HandleEof
    PROVE  /\ GivesUp /\ ~cli.alive /\ UNCHANGED cli
           /\ eng'.outcome = eng.outcome
           /\ eng.gotError /\ eng.metaError => eng'.status = "failed"
           /\ ~eng.gotError /\ eng.state \notin {"completed", "failed", "stopped"} =>
                 \/ eng'.status = "stopped"
                 \/ eng'.status = "completed" /\ cli.code = "zero"
                 \/ eng'.status = "failed" /\ cli.code # "zero"
<1> DEFINE f == FailAllPendingReplies(eng)
           end == [f EXCEPT !.active = NoTurn, !.quarantine = FALSE]
           bad == IF ~eng.metaError /\ cli.code = "zero" THEN "completed" ELSE "failed"
           s == CASE cancelled -> "stopped"
                  [] ~cancelled /\ cli.code = "zero" -> "completed"
                  [] OTHER -> "failed"
           n == IF eng.gotError THEN [end EXCEPT !.status = bad] ELSE EmitTerminal(end, s)
<1>1. Step(n) /\ actor' = "closing" /\ ~cli.alive /\ UNCHANGED cli
  BY DEF HandleEof, Ended
<1>2. /\ f \in EngineType /\ Failed(eng, f) /\ SamePrompts(eng, f) /\ f.out = <<>>
      /\ SameTurn(eng, f) /\ SameVerdict(eng, f)
  BY EngineFacts, FailAllEffect
<1> HIDE DEF f
<1>3. /\ end \in EngineType /\ Failed(eng, end) /\ SamePrompts(eng, end) /\ end.out = <<>>
      /\ end.active = NoTurn /\ end.state = eng.state /\ end.outcome = eng.outcome
  BY <1>2 DEF EngineType, Failed, SamePrompts, SameTurn, SameVerdict
<1> HIDE DEF end
<1>4. bad \in {"completed", "failed"} /\ s \in {"completed", "failed", "stopped"}
  OBVIOUS
<1>5. cancelled \in BOOLEAN
  BY DEF TypeInv
<1>6. /\ n \in EngineType /\ Failed(eng, n) /\ SamePrompts(eng, n) /\ n.out = <<>>
      /\ n.active = NoTurn /\ n.outcome = eng.outcome
      /\ n.status = IF eng.gotError THEN bad
                    ELSE IF eng.state = s THEN end.status ELSE s
  <2>1. CASE eng.gotError
    <3> HIDE DEF bad
    <3>1. n = [end EXCEPT !.status = bad]
      BY <2>1
    <3> HIDE DEF n
    <3>2. n \in EngineType
      BY <1>3, <1>4, <3>1 DEF EngineType
    <3>3. /\ SameTickets(end, n) /\ SamePrompts(end, n) /\ n.out = end.out
          /\ n.active = end.active /\ n.outcome = end.outcome /\ n.status = bad
      BY <1>3, <3>1 DEF EngineType, SameTickets, SamePrompts
    <3> QED
      BY <1>3, <2>1, <3>2, <3>3 DEF Failed, SameTickets, SamePrompts
  <2>2. CASE ~eng.gotError
    <3> HIDE DEF s
    <3>1. n = EmitTerminal(end, s)
      BY <2>2
    <3> HIDE DEF n
    <3>2. s \in {"completed", "failed", "stopped"}
      BY <1>4
    <3>3. /\ n \in EngineType /\ n.active = end.active /\ n.outcome = end.outcome
          /\ SameTickets(end, n) /\ SamePrompts(end, n) /\ n.out = end.out
          /\ n.status = IF end.state = s THEN end.status ELSE s
      BY <1>3, <3>1, <3>2, EmitTerminalEffect
    <3> QED
      BY <1>3, <2>2, <3>3 DEF Failed, SameTickets, SamePrompts
  <2> QED
    BY <2>1, <2>2
<1> HIDE DEF n
<1>7. eng' = n /\ stdin' = stdin
  BY <1>1, <1>6, PlainStep
<1>8. GivesUp
  BY <1>1, <1>6, <1>7 DEF GivesUp
<1>9. eng.gotError /\ eng.metaError => n.status = "failed"
  BY <1>6
<1>10. ~eng.gotError /\ eng.state \notin {"completed", "failed", "stopped"} =>
          \/ n.status = "stopped"
          \/ n.status = "completed" /\ cli.code = "zero"
          \/ n.status = "failed" /\ cli.code # "zero"
  BY <1>4, <1>5, <1>6
<1> QED
  BY <1>1, <1>6, <1>7, <1>8, <1>9, <1>10

\* The tickets of the messages that are still in the mailbox.
Dropped == {mailbox[i].of : i \in {j \in DOMAIN mailbox : mailbox[j].k = "send"}}

LEMMA CleanupEffect ==
    ASSUME TypeInv, Cleanup
    PROVE  /\ eng' \in EngineType /\ eng'.out = <<>>
           /\ SameTurn(eng, eng') /\ SamePrompts(eng, eng') /\ SameVerdict(eng, eng')
           /\ eng'.queue = <<>>
           /\ eng'.reply = [t \in Tickets |->
                  IF t \in Dropped \/ Contains(eng.queue, t) THEN "err" ELSE eng.reply[t]]
           /\ mailbox' = <<>> /\ actor = "closing" /\ actor' = "gone"
           /\ UNCHANGED <<stdin, stdout, cli, cards, asked>>
<1> DEFINE f == FailAllPendingReplies(eng)
           r == [t \in Tickets |-> IF t \in Dropped THEN "err" ELSE f.reply[t]]
<1>1. eng' = [f EXCEPT !.reply = r]
  BY DEF Cleanup, Dropped
<1>2. /\ f \in EngineType /\ Failed(eng, f) /\ SamePrompts(eng, f) /\ f.out = <<>>
      /\ SameTurn(eng, f) /\ SameVerdict(eng, f)
  BY EngineFacts, FailAllEffect
<1> HIDE DEF f
<1>3. r \in [Tickets -> {"none", "waiting", "ok", "err"}]
  BY <1>2, FieldTypes
<1>4. r = [t \in Tickets |->
              IF t \in Dropped \/ Contains(eng.queue, t) THEN "err" ELSE eng.reply[t]]
  BY <1>2 DEF Failed
<1> HIDE DEF r
<1>5. /\ eng' \in EngineType /\ eng'.out = f.out /\ eng'.queue = f.queue /\ eng'.reply = r
      /\ SameTurn(f, eng') /\ SamePrompts(f, eng') /\ SameVerdict(f, eng')
  BY <1>1, <1>2, <1>3 DEF EngineType, SameTurn, SamePrompts, SameVerdict
<1>6. /\ SameTurn(eng, eng') /\ SamePrompts(eng, eng') /\ SameVerdict(eng, eng')
  BY <1>2, <1>5 DEF SameTurn, SamePrompts, SameVerdict
<1>7. eng'.queue = <<>>
  BY <1>2, <1>5 DEF Failed
<1> QED
  BY <1>2, <1>4, <1>5, <1>6, <1>7 DEF Cleanup

LEMMA SendMessageEffect ==
    ASSUME TypeInv, NEW t \in Tickets, SendMessage(t)
    PROVE  /\ eng' \in EngineType /\ eng'.out = <<>>
           /\ SameTurn(eng, eng') /\ SamePrompts(eng, eng') /\ SameVerdict(eng, eng')
           /\ eng'.loop = eng.loop /\ eng'.queue = eng.queue
           /\ eng.reply[t] = "none" /\ eng'.reply = [eng.reply EXCEPT ![t] = "waiting"]
           /\ mailbox' = Append(mailbox, Cmd("send", t)) /\ actor # "gone"
           /\ asked' = Append(asked, t)
           /\ UNCHANGED <<actor, stdin, stdout, cli, cards>>
<1> DEFINE r == [eng.reply EXCEPT ![t] = "waiting"]
<1>1. eng' = [eng EXCEPT !.reply = r]
  BY DEF SendMessage
<1>2. r \in [Tickets -> {"none", "waiting", "ok", "err"}]
  BY EngineFacts, FieldTypes
<1> HIDE DEF r
<1>3. /\ eng' \in EngineType /\ eng'.out = eng.out /\ eng'.queue = eng.queue /\ eng'.reply = r
      /\ SameTurn(eng, eng') /\ SamePrompts(eng, eng') /\ SameVerdict(eng, eng')
      /\ eng'.loop = eng.loop
  BY <1>1, <1>2, EngineFacts DEF EngineType, SameTurn, SamePrompts, SameVerdict
<1> QED
  BY <1>3, EngineFacts DEF SendMessage, Post, r

-----------------------------------------------------------------------------
(* The CLI: what it may put into its stdout.                                *)

LEMMA FunctionIsSeq ==
    ASSUME NEW S, NEW n \in Nat, NEW f \in [1 .. n -> S]
    PROVE  f \in Seq(S)
OBVIOUS

\* What the interrupted CLI reports: withdrawals of open prompts, then the result.
LEMMA WithdrawnSeq ==
    ASSUME CliShape, NEW S, S = {Msg("withdraw", p) : p \in IF CliWithdraws THEN cli.open ELSE {}},
           NEW gone \in SetToSeqs(S)
    PROVE  gone \in Seq(S) /\ S \subseteq Report
<1>1. cli.open \subseteq Prompts
  BY DEF CliShape, CliType
<1>2. S \subseteq Report
  BY <1>1 DEF Report
<1>3. IsFiniteSet(S)
  <2> DEFINE P == IF CliWithdraws THEN cli.open ELSE {}
             f == [p \in P |-> Msg("withdraw", p)]
  <2>1. IsFiniteSet(P)
    BY FS_EmptySet DEF CliShape
  <2>2. f \in Surjection(P, S)
    BY DEF Surjection
  <2> HIDE DEF P, f
  <2> QED
    BY <2>1, <2>2, FS_Surjection
<1>4. Cardinality(S) \in Nat
  BY <1>3, FS_CardinalityType
<1>5. gone \in [1 .. Cardinality(S) -> S]
  BY DEF SetToSeqs
<1>6. gone \in Seq(S)
  BY <1>4, <1>5, FunctionIsSeq
<1> QED
  BY <1>2, <1>6

LEMMA LineKinds ==
    ASSUME NEW l \in Line
    PROVE  /\ l.k = "user" => \E t \in Turns : l = Msg("user", t)
           /\ l.k = "answer" => \E p \in Prompts : l = Msg("answer", p)
BY DEF Line, Msg

LEMMA CliReadsEffect ==
    ASSUME TypeInv, NEW k, CliReads(k)
    PROVE  /\ stdin # <<>> /\ Head(stdin) \in Line /\ Head(stdin).k = k
           /\ stdin' = Tail(stdin) /\ stdin' \in Seq(Line)
<1>1. stdin \in Seq(Line)
  BY DEF TypeInv
<1> QED
  BY <1>1, HeadTailProperties DEF CliReads

LEMMA CliTakesTurnEffect ==
    ASSUME TypeInv, CliTakesTurn
    PROVE  \E t \in Turns :
              /\ Head(stdin) = Msg("user", t) /\ cli.turn = NoTurn
              /\ cli' = [cli EXCEPT !.turn = t,
                                    !.taken = IF t = Ralph THEN @ ELSE Append(@, t)]
<1>1. CliReads("user")
  BY DEF CliTakesTurn
<1>2. PICK t \in Turns : Head(stdin) = Msg("user", t)
  BY <1>1, CliReadsEffect, LineKinds
<1>3. Head(stdin).of = t
  BY <1>2 DEF Msg
<1> QED
  BY <1>2, <1>3 DEF CliTakesTurn

LEMMA CliTakesAnswerEffect ==
    ASSUME TypeInv, CliTakesAnswer
    PROVE  \E p \in Prompts :
              Head(stdin) = Msg("answer", p) /\ cli' = [cli EXCEPT !.open = @ \ {p}]
<1>1. CliReads("answer")
  BY DEF CliTakesAnswer
<1>2. PICK p \in Prompts : Head(stdin) = Msg("answer", p)
  BY <1>1, CliReadsEffect, LineKinds
<1>3. Head(stdin).of = p
  BY <1>2 DEF Msg
<1> QED
  BY <1>2, <1>3 DEF CliTakesAnswer

\* The reports of a turn's end: some lines that are no result, then its result.
Ends(lines) ==
    /\ lines \in Seq(Report)
    /\ \A i \in 1 .. Len(lines) : lines[i].k # "result" /\ lines[i].k # "prompt"
    /\ \A i \in 1 .. Len(lines) : \A p \in Prompts :
          lines[i] = Msg("withdraw", p) => p \in cli.open
    /\ \E r \in Report : r.k = "result" /\ stdout' = Append(stdout \o lines, r)

LEMMA CliTakesInterruptEffect ==
    ASSUME TypeInv, CliTakesInterrupt
    PROVE  IF cli.turn = NoTurn THEN UNCHANGED <<cli, stdout>>
           ELSE /\ cli' = [cli EXCEPT !.turn = NoTurn, !.open = {}]
                /\ \E lines : Ends(lines)
<1> SUFFICES ASSUME cli.turn # NoTurn
             PROVE  \E lines : Ends(lines)
  BY DEF CliTakesInterrupt
<1> DEFINE S == {Msg("withdraw", p) : p \in IF CliWithdraws THEN cli.open ELSE {}}
           r == [k |-> "result", of |-> cli.turn, bad |-> TRUE]
<1>1. PICK gone \in SetToSeqs(S) : stdout' = stdout \o gone \o <<r>>
  BY DEF CliTakesInterrupt
<1>2. CliShape /\ cli.turn \in Turns /\ stdout \in Seq(Report)
  BY DEF TypeInv, CliShape, CliType
<1>3. r \in Report /\ r.k = "result"
  BY <1>2 DEF Report
<1>4. \A m \in S : \E p \in cli.open : m = Msg("withdraw", p)
  OBVIOUS
<1> HIDE DEF S, r
<1>5. gone \in Seq(S) /\ S \subseteq Report
  BY <1>2, WithdrawnSeq DEF S
<1>6. gone \in Seq(Report)
  BY <1>5, SeqMonotonic
<1>7. \A i \in 1 .. Len(gone) : \E p \in cli.open : gone[i] = Msg("withdraw", p)
  BY <1>4, <1>5, ElementOfSeq
<1>8. stdout' = Append(stdout \o gone, r)
  BY <1>1, <1>2, <1>3, <1>6, AppendIsConcat, ConcatProperties
<1>9. \A i \in 1 .. Len(gone) : gone[i].k # "result" /\ gone[i].k # "prompt"
  <2>1. \A p : Msg("withdraw", p).k = "withdraw"
    BY DEF Msg
  <2> QED
    BY <1>7, <2>1
<1>10. \A i \in 1 .. Len(gone) : \A p \in Prompts :
          gone[i] = Msg("withdraw", p) => p \in cli.open
  <2>1. \A p, q : Msg("withdraw", p) = Msg("withdraw", q) => p = q
    BY DEF Msg
  <2> QED
    BY <1>7, <2>1
<1>11. Ends(gone)
  BY <1>3, <1>6, <1>8, <1>9, <1>10 DEF Ends
<1> QED
  BY <1>11

LEMMA CliFinishesEffect ==
    ASSUME TypeInv, NEW bad \in BOOLEAN, NEW promise \in BOOLEAN, CliFinishes(bad, promise)
    PROVE  cli.turn # NoTurn /\ cli' = [cli EXCEPT !.turn = NoTurn] /\ \E lines : Ends(lines)
<1> DEFINE said == IF promise THEN <<Msg("promise", NoTurn)>> ELSE <<>>
           r == [k |-> "result", of |-> cli.turn, bad |-> bad]
<1>1. /\ cli.turn # NoTurn /\ cli' = [cli EXCEPT !.turn = NoTurn]
      /\ stdout' = stdout \o said \o <<r>>
  BY DEF CliFinishes
<1>2. cli.turn \in Turns /\ stdout \in Seq(Report)
  BY <1>1 DEF TypeInv, CliShape, CliType
<1>3. r \in Report /\ r.k = "result"
  BY <1>2 DEF Report
<1>4. Msg("promise", NoTurn) \in Report
  BY DEF Report
<1>5. said \in Seq(Report) /\ \A i \in 1 .. Len(said) : said[i] = Msg("promise", NoTurn)
  BY <1>4
<1> HIDE DEF said, r
<1>6. stdout' = Append(stdout \o said, r)
  BY <1>1, <1>2, <1>3, <1>5, AppendIsConcat, ConcatProperties
<1>7. Ends(said)
  BY <1>3, <1>5, <1>6 DEF Ends, Msg
<1> QED
  BY <1>1, <1>7

-----------------------------------------------------------------------------
(* Types.                                                                   *)

LEMMA MovedShape ==
    ASSUME TypeInv, NEW m \in EngineType, m.quarantine => m.active = NoTurn, Moved(m)
    PROVE  EngineShape' /\ Wrote(Line)
<1>1. \A t \in Turns : Msg("user", t) \in Line /\ t # NoTurn
  BY SessionActorAssumption DEF Line, Turns
<1> QED
  BY <1>1 DEF Moved, Stays, Fails, Starts, Untouched, EngineShape, Wrote

LEMMA WroteType ==
    ASSUME TypeInv, NEW L \in SUBSET Line, Wrote(L)
    PROVE  stdin' \in Seq(Line)
<1>1. stdin \in Seq(Line)
  BY DEF TypeInv
<1> QED
  BY <1>1 DEF Wrote

LEMMA InitTypes == Init => TypeInv
<1> SUFFICES ASSUME Init PROVE TypeInv
  OBVIOUS
<1>1. <<>> \in Seq(Tickets) /\ <<>> \in Seq(Message) /\ <<>> \in Seq(Order)
      /\ <<>> \in Seq(Line) /\ <<>> \in Seq(Report)
  OBVIOUS
<1>2. EngineShape
  <2>1. PICK status \in {"running", "idle"} :
          eng = [active |-> NoTurn, quarantine |-> FALSE, interruptSent |-> FALSE,
                 queue |-> <<>>, loop |-> NoLoop, pendingInterrupt |-> FALSE,
                 pending |-> {}, remembered |-> FALSE, state |-> "", gotError |-> FALSE,
                 status |-> status, metaError |-> FALSE,
                 reply |-> [t \in Tickets |-> "none"],
                 answers |-> [p \in Prompts |-> 0], interrupted |-> FALSE,
                 outcome |-> "none", out |-> <<>>]
    BY DEF Init
  <2>2. NoLoop \in LoopType
    BY NoLoopType
  <2>3. /\ [t \in Tickets |-> "none"] \in [Tickets -> {"none", "waiting", "ok", "err"}]
        /\ [p \in Prompts |-> 0] \in [Prompts -> Nat]
    OBVIOUS
  <2>4. eng \in EngineType
    BY <1>1, <2>1, <2>2, <2>3 DEF EngineType, LoopType
  <2>5. eng.out = <<>> /\ eng.active = NoTurn
    BY <2>1
  <2> QED
    BY <2>4, <2>5 DEF EngineShape
<1>3. CliShape
  BY <1>1, FS_EmptySet DEF Init, CliShape, CliType
<1>4. interrupts \in 0 .. MaxInterrupts /\ loops \in 0 .. MaxLoops
  <2>1. interrupts = 0 /\ loops = 0
    BY DEF Init
  <2> QED
    BY <2>1, SessionActorAssumption
<1>5. /\ mailbox \in Seq(Order) /\ stdin \in Seq(Line) /\ stdout \in Seq(Report)
      /\ asked \in Seq(Tickets)
  BY <1>1 DEF Init
<1>6. actor = "running" /\ cards \subseteq Prompts /\ cancelled \in BOOLEAN
  BY DEF Init
<1> QED
  BY <1>2, <1>3, <1>4, <1>5, <1>6 DEF TypeInv

LEMMA CallerTypes ==
    ASSUME TypeInv, CallerNext
    PROVE  TypeInv'
<1>1. /\ mailbox \in Seq(Order) /\ EngineShape /\ asked \in Seq(Tickets)
      /\ interrupts \in 0 .. MaxInterrupts /\ loops \in 0 .. MaxLoops
      /\ MaxInterrupts \in Nat /\ MaxLoops \in Nat
  BY SessionActorAssumption DEF TypeInv
<1>2. ASSUME NEW c \in Order
      PROVE  Append(mailbox, c) \in Seq(Order)
  BY <1>1
<1>3. ASSUME NEW k \in {"interrupt", "stop", "ralph", "unralph"}
      PROVE  Append(mailbox, Cmd(k, NoTurn)) \in Seq(Order)
  BY <1>2 DEF Order
<1>4. CASE \E t \in Tickets : SendMessage(t)
  <2>1. PICK t \in Tickets : SendMessage(t)
    BY <1>4
  <2>2. /\ eng' \in EngineType /\ eng'.out = <<>> /\ SameTurn(eng, eng')
        /\ mailbox' = Append(mailbox, Cmd("send", t)) /\ asked' = Append(asked, t)
        /\ UNCHANGED <<actor, stdin, stdout, cli, cards>>
    BY <2>1, SendMessageEffect
  <2>3. mailbox' \in Seq(Order) /\ asked' \in Seq(Tickets)
    BY <1>1, <1>2, <2>2 DEF Order
  <2>4. EngineShape'
    BY <1>1, <2>2 DEF EngineShape, SameTurn
  <2>5. UNCHANGED <<cancelled, interrupts, loops>>
    BY <2>1 DEF SendMessage, Post
  <2> QED
    BY <2>2, <2>3, <2>4, <2>5 DEF TypeInv, CliShape
<1>5. CASE Interrupt
  <2>1. mailbox' \in Seq(Order)
    BY <1>3, <1>5 DEF Interrupt, Post
  <2>2. interrupts' \in 0 .. MaxInterrupts
    BY <1>1, <1>5 DEF Interrupt
  <2> QED
    BY <1>5, <2>1, <2>2 DEF Interrupt, Post, TypeInv, EngineShape, CliShape
<1>6. CASE StopSession
  <2>1. mailbox' \in Seq(Order)
    BY <1>3, <1>6 DEF StopSession, Post
  <2> QED
    BY <1>6, <2>1 DEF StopSession, Post, TypeInv, EngineShape, CliShape
<1>7. CASE StartRalphLoop
  <2>1. mailbox' \in Seq(Order)
    BY <1>3, <1>7 DEF StartRalphLoop, Post
  <2>2. loops' \in 0 .. MaxLoops
    BY <1>1, <1>7 DEF StartRalphLoop
  <2> QED
    BY <1>7, <2>1, <2>2 DEF StartRalphLoop, Post, TypeInv, EngineShape, CliShape
<1>8. CASE CancelRalphLoop
  <2>1. mailbox' \in Seq(Order)
    BY <1>3, <1>8 DEF CancelRalphLoop, Post
  <2> QED
    BY <1>8, <2>1 DEF CancelRalphLoop, Post, TypeInv, EngineShape, CliShape
<1>9. CASE AppExit
  BY <1>9 DEF AppExit, TypeInv, EngineShape, CliShape
<1>10. CASE \E p \in Prompts, keep \in BOOLEAN : Respond(p, keep)
  <2>1. PICK p \in Prompts, keep \in BOOLEAN : Respond(p, keep)
    BY <1>10
  <2>2. mailbox' \in Seq(Order)
    BY <1>2, <2>1 DEF Respond, AnswerCmd, Post, Order
  <2> QED
    BY <2>1, <2>2 DEF Respond, AnswerCmd, Post, TypeInv, EngineShape, CliShape
<1> QED
  BY <1>4, <1>5, <1>6, <1>7, <1>8, <1>9, <1>10 DEF CallerNext

LEMMA CliTypes ==
    ASSUME TypeInv, CliNext
    PROVE  TypeInv'
<1>1. /\ cli \in CliType /\ CliShape /\ stdin \in Seq(Line) /\ stdout \in Seq(Report)
      /\ cli.alive
      /\ UNCHANGED <<actor, eng, mailbox, cards, cancelled, asked, interrupts, loops>>
  BY DEF TypeInv, CliShape, CliNext, CliStep, CliTakesTurn, CliTakesAnswer, CliTakesInterrupt,
         CliPrompts, CliWithdrawsPrompt, CliFinishes, CliExits
<1>2. ASSUME CliShape', stdin' \in Seq(Line), stdout' \in Seq(Report)
      PROVE  TypeInv'
  BY <1>1, <1>2 DEF TypeInv, EngineShape
<1>3. ASSUME NEW lines, Ends(lines)
      PROVE  stdout' \in Seq(Report)
  BY <1>1, <1>3, ConcatProperties DEF Ends
<1>4. CASE CliTakesTurn
  <2>1. CliReads("user") /\ UNCHANGED stdout
    BY <1>4 DEF CliTakesTurn
  <2>2. stdin' \in Seq(Line)
    BY <2>1, CliReadsEffect
  <2>3. PICK t \in Turns :
          cli' = [cli EXCEPT !.turn = t, !.taken = IF t = Ralph THEN @ ELSE Append(@, t)]
    BY <1>4, CliTakesTurnEffect
  <2> DEFINE taken == IF t = Ralph THEN cli.taken ELSE Append(cli.taken, t)
  <2>4. taken \in Seq(Tickets)
    BY <1>1 DEF CliType, Turns
  <2>5. cli' = [cli EXCEPT !.turn = t, !.taken = taken]
    BY <1>1, <2>3 DEF CliType
  <2> HIDE DEF taken
  <2>6. CliShape'
    BY <1>1, <2>4, <2>5 DEF CliShape, CliType
  <2> QED
    BY <1>1, <1>2, <2>1, <2>2, <2>6
<1>5. CASE CliTakesAnswer
  <2>1. CliReads("answer") /\ UNCHANGED stdout
    BY <1>5 DEF CliTakesAnswer
  <2>2. stdin' \in Seq(Line)
    BY <2>1, CliReadsEffect
  <2>3. PICK p \in Prompts : cli' = [cli EXCEPT !.open = @ \ {p}]
    BY <1>5, CliTakesAnswerEffect
  <2>4. IsFiniteSet(cli.open \ {p})
    BY <1>1, FS_Subset DEF CliShape
  <2>5. CliShape'
    BY <1>1, <2>3, <2>4 DEF CliShape, CliType
  <2> QED
    BY <1>1, <1>2, <2>1, <2>2, <2>5
<1>6. CASE CliTakesInterrupt
  <2>1. CliReads("interrupt")
    BY <1>6 DEF CliTakesInterrupt
  <2>2. stdin' \in Seq(Line)
    BY <2>1, CliReadsEffect
  <2>3. CASE cli.turn = NoTurn
    <3>1. UNCHANGED <<cli, stdout>>
      BY <1>6, <2>3, CliTakesInterruptEffect
    <3> QED
      BY <1>1, <1>2, <2>2, <3>1 DEF CliShape
  <2>4. CASE cli.turn # NoTurn
    <3>1. cli' = [cli EXCEPT !.turn = NoTurn, !.open = {}] /\ \E lines : Ends(lines)
      BY <1>6, <2>4, CliTakesInterruptEffect
    <3>2. stdout' \in Seq(Report)
      BY <1>3, <3>1
    <3>3. CliShape'
      BY <1>1, <3>1, FS_EmptySet DEF CliShape, CliType
    <3> QED
      BY <1>2, <2>2, <3>2, <3>3
  <2> QED
    BY <2>3, <2>4
<1>7. CASE \E p \in Prompts : CliPrompts(p)
  <2>1. PICK p \in Prompts : CliPrompts(p)
    BY <1>7
  <2>2. Msg("prompt", p) \in Report
    BY DEF Report
  <2>3. stdout' \in Seq(Report) /\ UNCHANGED stdin
    BY <1>1, <2>1, <2>2 DEF CliPrompts
  <2>4. IsFiniteSet(cli.open \cup {p})
    BY <1>1, FS_AddElement DEF CliShape
  <2>5. cli' = [cli EXCEPT !.open = @ \cup {p}, !.used = @ \cup {p}]
    BY <2>1 DEF CliPrompts
  <2>6. CliShape'
    BY <1>1, <2>4, <2>5 DEF CliShape, CliType
  <2> QED
    BY <1>1, <1>2, <2>3, <2>6
<1>8. CASE \E p \in Prompts : CliWithdrawsPrompt(p)
  <2>1. PICK p \in Prompts : CliWithdrawsPrompt(p)
    BY <1>8
  <2>2. Msg("withdraw", p) \in Report
    BY DEF Report
  <2>3. stdout' \in Seq(Report) /\ UNCHANGED stdin
    BY <1>1, <2>1, <2>2 DEF CliWithdrawsPrompt
  <2>4. IsFiniteSet(cli.open \ {p})
    BY <1>1, FS_Subset DEF CliShape
  <2>5. cli' = [cli EXCEPT !.open = @ \ {p}]
    BY <2>1 DEF CliWithdrawsPrompt
  <2>6. CliShape'
    BY <1>1, <2>4, <2>5 DEF CliShape, CliType
  <2> QED
    BY <1>1, <1>2, <2>3, <2>6
<1>9. CASE \E bad, promise \in BOOLEAN : CliFinishes(bad, promise)
  <2>1. PICK bad \in BOOLEAN, promise \in BOOLEAN : CliFinishes(bad, promise)
    BY <1>9
  <2>2. cli' = [cli EXCEPT !.turn = NoTurn] /\ \E lines : Ends(lines)
    BY <2>1, CliFinishesEffect
  <2>3. stdout' \in Seq(Report)
    BY <1>3, <2>2
  <2>4. CliShape'
    BY <1>1, <2>2 DEF CliShape, CliType
  <2> QED
    BY <1>1, <1>2, <2>1, <2>3, <2>4 DEF CliFinishes
<1>10. CASE \E code \in {"zero", "other"} : CliExits(code)
  <2>1. PICK code \in {"zero", "other"} : CliExits(code)
    BY <1>10
  <2>2. cli' = [cli EXCEPT !.alive = FALSE, !.code = code]
    BY <2>1 DEF CliExits
  <2>3. CliShape'
    BY <1>1, <2>2 DEF CliShape, CliType
  <2>4. stdin' \in Seq(Line) /\ UNCHANGED stdout
    BY <2>1 DEF CliExits
  <2> QED
    BY <1>1, <1>2, <2>3, <2>4
<1> QED
  BY <1>4, <1>5, <1>6, <1>7, <1>8, <1>9, <1>10 DEF CliNext

\* Same keeps the shape of the engine.
LEMMA SameShape ==
    ASSUME TypeInv, eng' \in EngineType, eng'.out = <<>>, SameTurn(eng, eng')
    PROVE  EngineShape'
BY EngineFacts DEF SameTurn, EngineShape

LEMMA AnsweredType ==
    ASSUME TypeInv, NEW p \in Prompts, Answered(p)
    PROVE  stdin' \in Seq(Line)
<1>1. stdin \in Seq(Line) /\ Msg("answer", p) \in Line
  BY DEF TypeInv, Line
<1> QED
  BY <1>1 DEF Answered

\* Every handler of the actor leaves a well-formed engine and a well-formed stdin.
LEMMA ActorShapes ==
    ASSUME TypeInv, ActorNext
    PROVE  EngineShape' /\ stdin' \in Seq(Line) /\ cards' \subseteq Prompts
<1>1. eng \in EngineType /\ EngineShape /\ stdin \in Seq(Line) /\ cards \subseteq Prompts
  BY DEF TypeInv, EngineShape
<1>2. ASSUME eng' = eng
      PROVE  EngineShape'
  BY <1>1, <1>2 DEF EngineShape
<1>3. ASSUME NEW m \in EngineType, m.quarantine => m.active = NoTurn, Moved(m)
      PROVE  EngineShape' /\ stdin' \in Seq(Line)
  BY <1>3, MovedShape, WroteType
<1>4. ASSUME NEW expired \in BOOLEAN, HandleSendMessage(expired)
      PROVE  EngineShape' /\ stdin' \in Seq(Line) /\ cards' = cards
  <2>1. PICK t \in Tickets, m \in EngineType : Queued(m, t) /\ Moved(m)
    BY <1>4, HandleSendMessageEffect
  <2>2. m.quarantine => m.active = NoTurn
    BY <2>1, EngineFacts DEF Queued, SameTurn
  <2> QED
    BY <1>3, <1>4, <2>1, <2>2 DEF HandleSendMessage
<1>5. ASSUME NEW expired \in BOOLEAN, ReadResult(expired)
      PROVE  EngineShape' /\ stdin' \in Seq(Line) /\ cards' = cards
  <2>1. PICK m : /\ TurnOver(eng, m)
                 /\ IF eng.active = NoTurn /\ ~eng.quarantine
                    THEN eng' = m /\ stdin' = stdin ELSE Moved(m)
    BY <1>5, ReadResultEffect
  <2>2. CASE Moved(m)
    BY <1>3, <1>5, <2>1, <2>2 DEF TurnOver, ReadResult
  <2>3. CASE eng' = m /\ stdin' = stdin
    BY <1>1, <1>5, <2>1, <2>3 DEF TurnOver, EngineShape, ReadResult
  <2> QED
    BY <2>1, <2>2, <2>3
<1>6. ASSUME Interrupts
      PROVE  EngineShape' /\ stdin' \in Seq(Line)
  <2>1. {Msg("interrupt", NoTurn)} \in SUBSET Line
    BY DEF Line
  <2>2. stdin' \in Seq(Line)
    BY <1>6, <2>1, WroteType DEF Interrupts
  <2> QED
    BY <1>6, <2>2, SameShape DEF Interrupts, Same
<1>7. CASE HandleInterrupt
  BY <1>1, <1>6, <1>7, HandleInterruptEffect DEF HandleInterrupt
<1>8. CASE QuarantineInterrupt
  BY <1>1, <1>6, <1>8, QuarantineInterruptEffect DEF QuarantineInterrupt
<1>9. CASE HandleStop \/ HandleCancelled
  BY <1>1, <1>2, <1>9 DEF HandleStop, HandleCancelled
<1>10. CASE HandleResponse
  <2>1. PICK p \in Prompts :
          /\ Aside
          /\ \/ Answered(p) /\ cards' = cards \ {p}
             \/ stdin' = stdin /\ cards' = cards
    BY <1>10, HandleResponseEffect
  <2>2. EngineShape'
    BY <2>1, SameShape DEF Aside
  <2> QED
    BY <1>1, <2>1, <2>2, AnsweredType
<1>11. CASE ReadPrompt
  <2>1. PICK p \in Prompts :
          /\ Aside
          /\ \/ Answered(p) /\ cards' = cards
             \/ stdin' = stdin /\ cards' = cards \cup {p}
    BY <1>11, ReadPromptEffect
  <2>2. EngineShape'
    BY <2>1, SameShape DEF Aside
  <2> QED
    BY <1>1, <2>1, <2>2, AnsweredType
<1>12. CASE ReadWithdraw
  BY <1>1, <1>2, <1>12 DEF ReadWithdraw
<1>13. CASE ReadPromise
  BY <1>1, <1>2, <1>13, ReadPromiseEffect DEF ReadPromise
<1>14. CASE HandleCancelRalph
  <2>1. LoopOnly
    BY <1>14, HandleCancelRalphEffect
  <2> QED
    BY <1>1, <1>14, <2>1, SameShape DEF LoopOnly, Same, HandleCancelRalph
<1>15. CASE HandleStartRalph
  <2>1. CASE eng' = eng /\ stdin' = stdin
    BY <1>1, <1>2, <1>15, <2>1 DEF HandleStartRalph
  <2>2. CASE \E m \in EngineType : m.out = <<>> /\ Same(eng, m) /\ Moved(m)
    <3>1. PICK m \in EngineType : Same(eng, m) /\ Moved(m)
      BY <2>2
    <3>2. m.quarantine => m.active = NoTurn
      BY <3>1, EngineFacts DEF Same, SameTurn
    <3> QED
      BY <1>1, <1>3, <1>15, <3>1, <3>2 DEF HandleStartRalph
  <2> QED
    BY <1>15, <2>1, <2>2, HandleStartRalphEffect
<1>16. CASE HardTimeout
  BY <1>1, <1>16, HardTimeoutEffect DEF EngineShape, HardTimeout
<1>17. CASE QuarantineKill
  BY <1>1, <1>17, QuarantineKillEffect DEF GivesUp, EngineShape, QuarantineKill
<1>18. CASE RetryRalph
  BY <1>1, <1>3, <1>18, RetryRalphEffect, EngineFacts DEF RetryRalph
<1>19. CASE HandleEof
  BY <1>1, <1>19, HandleEofEffect DEF GivesUp, EngineShape, HandleEof
<1>20. CASE Cleanup
  <2>1. EngineShape' /\ UNCHANGED <<stdin, cards>>
    BY <1>20, CleanupEffect, SameShape
  <2> QED
    BY <1>1, <2>1
<1> QED
  BY <1>1, <1>4, <1>5, <1>7, <1>8, <1>9, <1>10, <1>11, <1>12, <1>13, <1>14, <1>15, <1>16,
     <1>17, <1>18, <1>19, <1>20 DEF ActorNext

LEMMA ActorTypes ==
    ASSUME TypeInv, ActorNext
    PROVE  TypeInv'
<1>1. EngineShape' /\ stdin' \in Seq(Line) /\ cards' \subseteq Prompts
  BY ActorShapes
<1>2. UNCHANGED <<cancelled, asked, interrupts, loops>>
  BY DEF ActorNext, HandleSendMessage, ReadResult, HandleInterrupt, HandleStop, HandleResponse,
         HandleStartRalph, HandleCancelRalph, ReadPromise, ReadPrompt, ReadWithdraw,
         HardTimeout, QuarantineInterrupt, QuarantineKill, RetryRalph, HandleEof,
         HandleCancelled, Cleanup, Receive, ReadStdout, Tick
<1>3. actor' \in {"running", "closing", "gone"}
  BY DEF TypeInv, ActorNext, HandleSendMessage, ReadResult, HandleInterrupt, HandleStop,
         HandleResponse, HandleStartRalph, HandleCancelRalph, ReadPromise, ReadPrompt,
         ReadWithdraw, HardTimeout, QuarantineInterrupt, QuarantineKill, RetryRalph, HandleEof,
         HandleCancelled, Cleanup, ReadStdout
<1>4. mailbox' \in Seq(Order)
  <2>1. <<>> \in Seq(Order) /\ mailbox \in Seq(Order)
    BY DEF TypeInv
  <2>2. ASSUME NEW k, Receive(k)
        PROVE  mailbox' \in Seq(Order)
    BY <2>2, ReceiveEffect
  <2> QED
    BY <2>1, <2>2
       DEF ActorNext, HandleSendMessage, ReadResult, HandleInterrupt, HandleStop,
           HandleResponse, HandleStartRalph, HandleCancelRalph, ReadPromise, ReadPrompt,
           ReadWithdraw, HardTimeout, QuarantineInterrupt, QuarantineKill, RetryRalph,
           HandleEof, HandleCancelled, Cleanup, ReadStdout, Tick
<1>5. stdout' \in Seq(Report)
  <2>1. stdout \in Seq(Report)
    BY DEF TypeInv
  <2>2. ASSUME NEW k, ReadStdout(k)
        PROVE  stdout' \in Seq(Report)
    BY <2>2, ReadStdoutEffect
  <2> QED
    BY <2>1, <2>2
       DEF ActorNext, HandleSendMessage, ReadResult, HandleInterrupt, HandleStop,
           HandleResponse, HandleStartRalph, HandleCancelRalph, ReadPromise, ReadPrompt,
           ReadWithdraw, HardTimeout, QuarantineInterrupt, QuarantineKill, RetryRalph,
           HandleEof, HandleCancelled, Cleanup, Receive, Tick
<1>6. CliShape'
  <2>1. CliShape
    BY DEF TypeInv
  <2>2. CASE UNCHANGED cli
    BY <2>1, <2>2 DEF CliShape
  <2>3. CASE QuarantineKill
    BY <2>1, <2>3 DEF QuarantineKill, CliShape, CliType
  <2> QED
    BY <2>2, <2>3
       DEF ActorNext, HandleSendMessage, ReadResult, HandleInterrupt, HandleStop,
           HandleResponse, HandleStartRalph, HandleCancelRalph, ReadPromise, ReadPrompt,
           ReadWithdraw, HardTimeout, QuarantineInterrupt, RetryRalph, HandleEof,
           HandleCancelled, Cleanup, Receive, ReadStdout
<1> QED
  BY <1>1, <1>2, <1>3, <1>4, <1>5, <1>6 DEF TypeInv

LEMMA TypesStutter ==
    ASSUME TypeInv, UNCHANGED vars
    PROVE  TypeInv'
BY DEF vars, TypeInv, EngineShape, CliShape

LEMMA TypesInvariant == Spec => []TypeInv
<1>1. TypeInv /\ [Next]_vars => TypeInv'
  BY CallerTypes, ActorTypes, CliTypes, TypesStutter DEF Next
<1> QED
  BY <1>1, InitTypes, PTL DEF Spec

\* spawn_actor and every handler keep the actor's fields, its mailbox and the two
\* pipes in their types.
THEOREM TypesHold == Spec => []TypeOK
<1>1. TypeInv => TypeOK
  <2> SUFFICES ASSUME TypeInv PROVE TypeOK
    OBVIOUS
  <2>1. Order \subseteq Command
    <3>1. \A t \in Tickets : Cmd("send", t) \in Command
      BY DEF Command, Cmd
    <3>2. \A k \in {"interrupt", "stop", "ralph", "unralph"} : Cmd(k, NoTurn) \in Command
      BY DEF Command, Cmd
    <3>3. [k : {"answer"}, of : Prompts, keep : BOOLEAN] \subseteq Command
      BY DEF Command
    <3> QED
      BY <3>1, <3>2, <3>3 DEF Order
  <2>2. Report \subseteq Message
    <3>1. \A p \in Prompts : Msg("prompt", p) \in Message /\ Msg("withdraw", p) \in Message
      BY DEF Message, Msg
    <3>2. Msg("promise", NoTurn) \in Message
      BY DEF Message, Msg
    <3>3. [k : {"result"}, of : Turns, bad : BOOLEAN] \subseteq Message
      BY DEF Message
    <3> QED
      BY <3>1, <3>2, <3>3 DEF Report
  <2>3. mailbox \in Seq(Command)
    BY <2>1, SeqMonotonic DEF TypeInv
  <2>4. stdin \in Seq(Message)
    BY LineType, SeqMonotonic DEF TypeInv
  <2>5. stdout \in Seq(Message)
    BY <2>2, SeqMonotonic DEF TypeInv
  <2> QED
    BY <2>3, <2>4, <2>5 DEF TypeInv, TypeOK, EngineShape, CliShape, CliType
<1> QED
  BY <1>1, TypesInvariant, PTL

-----------------------------------------------------------------------------
(* What the actor promises, from here on. *)


One(b) == IF b THEN 1 ELSE 0

Lines(k) == {m \in Message : m.k = k}

Busy(e) == e.active # NoTurn \/ e.quarantine

-----------------------------------------------------------------------------
(* Turns.  A turn is in the CLI from the write of its line to stdin until   *)
(* its result is read: its line waits in stdin, the CLI works on it, or its *)
(* result waits in stdout.  While the actor runs there is such a turn       *)
(* exactly when the engine thinks so; with the process gone the result may  *)
(* never have been written.                                                *)

InCli == Hits(stdin, Lines("user")) + Hits(stdout, Lines("result")) + One(cli.turn # NoTurn)

InFlight ==
    IF cli.alive THEN InCli = One(Busy(eng))
    ELSE Hits(stdout, Lines("result")) <= One(Busy(eng))

TurnInv ==
    actor = "running" =>
        /\ InFlight
        /\ eng.state = "running" <=> Busy(eng)
        /\ cli.alive /\ ~Busy(eng) => eng.queue = <<>> /\ eng.loop.phase # "running"

LEMMA KindsOfLine ==
    ASSUME NEW l \in Line
    PROVE  l \in Lines("user") <=> l.k = "user"
BY LineType DEF Lines

LEMMA ReportType == Report \subseteq Message
<1>1. \A p \in Prompts : Msg("prompt", p) \in Message /\ Msg("withdraw", p) \in Message
  BY DEF Message, Msg
<1>2. Msg("promise", NoTurn) \in Message
  BY DEF Message, Msg
<1>3. [k : {"result"}, of : Turns, bad : BOOLEAN] \subseteq Message
  BY DEF Message
<1> QED
  BY <1>1, <1>2, <1>3 DEF Report

LEMMA KindsOfReport ==
    ASSUME NEW r \in Report
    PROVE  r \in Lines("result") <=> r.k = "result"
BY ReportType DEF Lines

LEMMA PipeFacts ==
    ASSUME TypeInv
    PROVE  /\ stdin \in Seq(Line) /\ stdout \in Seq(Report) /\ cli \in CliType
           /\ Hits(stdin, Lines("user")) \in Nat /\ Hits(stdout, Lines("result")) \in Nat
<1>1. stdin \in Seq(Line) /\ stdout \in Seq(Report) /\ cli \in CliType
  BY DEF TypeInv, CliShape
<1> QED
  BY <1>1, PlacesFinite

\* A written line counts if it is a user's or the loop's.
LEMMA HitsOfWrite ==
    ASSUME TypeInv, NEW l \in Line, stdin' = Append(stdin, l)
    PROVE  Hits(stdin', Lines("user")) = Hits(stdin, Lines("user")) + One(l.k = "user")
<1>1. Hits(Append(stdin, l), Lines("user")) =
        Hits(stdin, Lines("user")) + (IF l \in Lines("user") THEN 1 ELSE 0)
  BY PipeFacts, HitsOfAppend
<1> QED
  BY <1>1, KindsOfLine DEF One

LEMMA HitsOfOther ==
    ASSUME TypeInv, NEW L \in SUBSET Line, \A l \in L : l.k # "user", Wrote(L)
    PROVE  Hits(stdin', Lines("user")) = Hits(stdin, Lines("user"))
<1>1. CASE stdin' = stdin
  BY <1>1
<1>2. ASSUME NEW l \in L, stdin' = Append(stdin, l)
      PROVE  Hits(stdin', Lines("user")) = Hits(stdin, Lines("user"))
  BY <1>2, HitsOfWrite, PipeFacts DEF One
<1> QED
  BY <1>1, <1>2 DEF Wrote

\* A line that is read counts if it is a result.
LEMMA HitsOfRead ==
    ASSUME TypeInv, NEW k, ReadStdout(k)
    PROVE  /\ Hits(stdout', Lines("result")) \in Nat
           /\ Hits(stdout, Lines("result")) = Hits(stdout', Lines("result")) + One(k = "result")
<1>1. stdout # <<>> /\ Head(stdout) \in Report /\ Head(stdout).k = k /\ stdout' = Tail(stdout)
      /\ stdout' \in Seq(Report)
  BY ReadStdoutEffect
<1>2. Hits(stdout, Lines("result")) = Hits(Tail(stdout), Lines("result"))
                + (IF Head(stdout) \in Lines("result") THEN 1 ELSE 0)
  BY <1>1, PipeFacts, HitsOfTail
<1>3. Head(stdout) \in Lines("result") <=> k = "result"
  BY <1>1, KindsOfReport
<1> QED
  BY <1>1, <1>2, <1>3, PlacesFinite DEF One

LEMMA HitsOfTake ==
    ASSUME TypeInv, NEW k, CliReads(k)
    PROVE  /\ Hits(stdin', Lines("user")) \in Nat
           /\ Hits(stdin, Lines("user")) = Hits(stdin', Lines("user")) + One(k = "user")
<1>1. stdin # <<>> /\ Head(stdin) \in Line /\ Head(stdin).k = k /\ stdin' = Tail(stdin)
      /\ stdin' \in Seq(Line)
  BY CliReadsEffect
<1>2. Hits(stdin, Lines("user")) = Hits(Tail(stdin), Lines("user"))
                + (IF Head(stdin) \in Lines("user") THEN 1 ELSE 0)
  BY <1>1, PipeFacts, HitsOfTail
<1>3. Head(stdin) \in Lines("user") <=> k = "user"
  BY <1>1, KindsOfLine
<1> QED
  BY <1>1, <1>2, <1>3, PlacesFinite DEF One

\* The end of a turn puts one result into stdout.
LEMMA HitsOfEnd ==
    ASSUME TypeInv, NEW lines, Ends(lines)
    PROVE  Hits(stdout', Lines("result")) = Hits(stdout, Lines("result")) + 1
<1>1. PICK r \in Report : r.k = "result" /\ stdout' = Append(stdout \o lines, r)
  BY DEF Ends
<1>2. lines \in Seq(Report) /\ \A i \in 1 .. Len(lines) : lines[i].k # "result"
  BY DEF Ends
<1>3. \A i \in 1 .. Len(lines) : lines[i] \notin Lines("result")
  BY <1>2, ElementOfSeq, KindsOfReport
<1>4. stdout \o lines \in Seq(Report)
  BY <1>2, PipeFacts, ConcatProperties
<1>5. Hits(stdout \o lines, Lines("result")) = Hits(stdout, Lines("result"))
  BY <1>2, <1>3, PipeFacts, HitsOfConcat
<1>6. r \in Lines("result")
  BY <1>1, KindsOfReport
<1> DEFINE s == stdout \o lines
<1>7. s \in Seq(Report)
  BY <1>4
<1> HIDE DEF s
<1>8. Hits(Append(s, r), Lines("result")) = Hits(s, Lines("result")) + 1
  BY <1>6, <1>7, HitsOfAppend
<1> QED
  BY <1>1, <1>5, <1>8 DEF s

-----------------------------------------------------------------------------
\* A step that leaves the turn alone.
Quiet ==
    /\ SameTurn(eng, eng') /\ eng'.queue = eng.queue
    /\ eng'.loop.phase = "running" => eng.loop.phase = "running"
    /\ UNCHANGED <<actor, cli>>
    /\ Hits(stdin', Lines("user")) = Hits(stdin, Lines("user"))
    /\ Hits(stdout', Lines("result")) = Hits(stdout, Lines("result"))

LEMMA QuietTurn ==
    ASSUME TurnInv, Quiet
    PROVE  TurnInv'
BY DEF TurnInv, Quiet, InFlight, InCli, SameTurn, Busy

\* A step that ends in a dispatch, from an engine m that is right about its turn.
LEMMA DispatchTurn ==
    ASSUME TypeInv, NEW m \in EngineType, Moved(m), UNCHANGED <<actor, cli>>,
           m.state = "running" <=> Busy(m),
           Hits(stdout', Lines("result")) \in Nat,
           IF cli.alive
           THEN Hits(stdin, Lines("user")) + Hits(stdout', Lines("result"))
                    + One(cli.turn # NoTurn) = One(Busy(m))
           ELSE Hits(stdout', Lines("result")) <= One(Busy(m))
    PROVE  TurnInv'
<1>1. CASE Stays(m, eng') /\ stdin' = stdin
  BY <1>1 DEF Stays, TurnInv, InFlight, InCli, Busy
<1>2. CASE Fails(m, eng') /\ stdin' = stdin
  <2>1. Busy(eng') <=> Busy(m)
    BY <1>2 DEF Fails, Busy, Moved, Untouched
  <2>2. ~cli'.alive /\ (eng'.state = m.state)
    BY <1>2 DEF Fails
  <2> QED
    BY <2>1, <2>2 DEF TurnInv, InFlight, One
<1>3. ASSUME NEW turn \in Turns, Starts(m, eng', turn), stdin' = Append(stdin, Msg("user", turn))
      PROVE  TurnInv'
  <2>1. Msg("user", turn) \in Line /\ Msg("user", turn).k = "user"
    BY DEF Line, Msg
  <2>2. Hits(stdin', Lines("user")) = Hits(stdin, Lines("user")) + 1
    BY <1>3, <2>1, HitsOfWrite DEF One
  <2>3. Busy(eng') /\ ~Busy(m) /\ eng'.state = "running" /\ cli.alive
    BY <1>3, SessionActorAssumption DEF Starts, Busy, Turns, Moved, Untouched
  <2>4. InFlight'
    BY <2>2, <2>3, PipeFacts DEF InFlight, InCli, One
  <2> QED
    BY <2>3, <2>4 DEF TurnInv
<1> QED
  BY <1>1, <1>2, <1>3 DEF Moved

\* A result is never read for no turn.
LEMMA ResultFindsTurn ==
    ASSUME TypeInv, TurnInv, NEW expired \in BOOLEAN, ReadResult(expired)
    PROVE  Busy(eng)
<1>1. ReadStdout("result") /\ actor = "running"
  BY DEF ReadResult, ReadStdout
<1>2. /\ Hits(stdout', Lines("result")) \in Nat
      /\ Hits(stdout, Lines("result")) = Hits(stdout', Lines("result")) + 1
  BY <1>1, HitsOfRead DEF One
<1> QED
  BY <1>1, <1>2, PipeFacts DEF TurnInv, InFlight, InCli, One

LEMMA InitTurns == Init => TurnInv
<1> SUFFICES ASSUME Init PROVE TurnInv
  OBVIOUS
<1>1. eng.active = NoTurn /\ ~eng.quarantine /\ eng.state = "" /\ eng.queue = <<>>
      /\ eng.loop.phase = "none"
  <2>1. PICK status \in {"running", "idle"} :
          eng = [active |-> NoTurn, quarantine |-> FALSE, interruptSent |-> FALSE,
                 queue |-> <<>>, loop |-> NoLoop, pendingInterrupt |-> FALSE,
                 pending |-> {}, remembered |-> FALSE, state |-> "", gotError |-> FALSE,
                 status |-> status, metaError |-> FALSE,
                 reply |-> [t \in Tickets |-> "none"],
                 answers |-> [p \in Prompts |-> 0], interrupted |-> FALSE,
                 outcome |-> "none", out |-> <<>>]
    BY DEF Init
  <2> QED
    BY <2>1 DEF NoLoop
<1>2. stdin = <<>> /\ stdout = <<>> /\ cli.turn = NoTurn
  BY DEF Init
<1>3. Hits(stdin, Lines("user")) = 0 /\ Hits(stdout, Lines("result")) = 0
  BY <1>2, HitsOfEmpty
<1>4. InFlight
  <2>1. cli.turn = NoTurn
    BY <1>2
  <2>2. InCli = 0
    BY <1>3, <2>1 DEF InCli, One
  <2>3. One(Busy(eng)) = 0
    BY <1>1 DEF Busy, One
  <2> QED
    BY <1>3, <2>2, <2>3 DEF InFlight
<1> QED
  BY <1>1, <1>4 DEF TurnInv, Busy

LEMMA CallerTurns ==
    ASSUME TypeInv, TurnInv, CallerNext
    PROVE  TurnInv'
<1>1. CASE \E t \in Tickets : SendMessage(t)
  <2>1. PICK t \in Tickets : SendMessage(t)
    BY <1>1
  <2>2. Quiet
    BY <2>1, SendMessageEffect DEF Quiet
  <2> QED
    BY <2>2, QuietTurn
<1>2. CASE UNCHANGED <<actor, eng, stdin, stdout, cli>>
  BY <1>2, QuietTurn DEF Quiet, SameTurn
<1> QED
  BY <1>1, <1>2
     DEF CallerNext, Interrupt, StopSession, StartRalphLoop, CancelRalphLoop, AppExit, Respond,
         Post

LEMMA ActorTurns ==
    ASSUME TypeInv, TurnInv, ActorNext
    PROVE  TurnInv'
<1> USE DEF Quiet
<1>1. ASSUME actor' # "running"
      PROVE  TurnInv'
  BY <1>1 DEF TurnInv
<1>2. ASSUME UNCHANGED stdout
      PROVE  Hits(stdout', Lines("result")) = Hits(stdout, Lines("result"))
  BY <1>2
<1>3. ASSUME NEW k, ReadStdout(k), k # "result"
      PROVE  Hits(stdout', Lines("result")) = Hits(stdout, Lines("result"))
  BY <1>3, HitsOfRead, PipeFacts DEF One
<1>4. ASSUME Interrupts, UNCHANGED <<actor, stdout, cli>>
      PROVE  TurnInv'
  <2>1. Msg("interrupt", NoTurn) \in Line /\ Msg("interrupt", NoTurn).k # "user"
    BY DEF Line, Msg
  <2>2. Hits(stdin', Lines("user")) = Hits(stdin, Lines("user"))
    BY <1>4, <2>1, HitsOfOther DEF Interrupts
  <2> QED
    BY <1>2, <1>4, <2>2, QuietTurn DEF Interrupts, Same, SameTickets
<1>5. ASSUME NEW p \in Prompts, Aside, Answered(p) \/ stdin' = stdin, UNCHANGED <<actor, cli>>,
             Hits(stdout', Lines("result")) = Hits(stdout, Lines("result"))
      PROVE  TurnInv'
  <2>1. Msg("answer", p) \in Line /\ Msg("answer", p).k # "user"
    BY DEF Line, Msg
  <2>2. Hits(stdin', Lines("user")) = Hits(stdin, Lines("user"))
    BY <1>5, <2>1, HitsOfWrite, PipeFacts DEF Answered, One
  <2> QED
    BY <1>5, <2>2, QuietTurn DEF Aside, SameTickets
<1>6. ASSUME NEW m \in EngineType, Moved(m), SameTurn(eng, m), actor = "running",
             UNCHANGED <<actor, stdout, cli>>
      PROVE  TurnInv'
  BY <1>6, DispatchTurn, PipeFacts DEF TurnInv, InFlight, InCli, SameTurn, Busy
<1>7. ASSUME NEW expired \in BOOLEAN, HandleSendMessage(expired)
      PROVE  TurnInv'
  <2>1. PICK t \in Tickets, m \in EngineType : Queued(m, t) /\ Moved(m)
    BY <1>7, HandleSendMessageEffect
  <2> QED
    BY <1>6, <1>7, <2>1 DEF Queued, HandleSendMessage, Receive
<1>8. ASSUME NEW expired \in BOOLEAN, ReadResult(expired)
      PROVE  TurnInv'
  <2>1. PICK m : /\ TurnOver(eng, m)
                 /\ IF eng.active = NoTurn /\ ~eng.quarantine
                    THEN eng' = m /\ stdin' = stdin ELSE Moved(m)
    BY <1>8, ReadResultEffect
  <2>2. ReadStdout("result") /\ actor = "running" /\ UNCHANGED <<actor, cli>>
    BY <1>8 DEF ReadResult, ReadStdout
  <2>3. /\ Hits(stdout', Lines("result")) \in Nat
        /\ Hits(stdout, Lines("result")) = Hits(stdout', Lines("result")) + 1
    BY <2>2, HitsOfRead DEF One
  <2>4. InFlight
    BY <2>2 DEF TurnInv
  <2>5. Busy(eng)
    BY <1>8, ResultFindsTurn
  <2>6. Moved(m)
    BY <2>1, <2>5 DEF Busy
  <2>7. m.state = "idle" /\ ~Busy(m) /\ m \in EngineType
    BY <2>1 DEF TurnOver, Busy
  <2>8. IF cli.alive
        THEN Hits(stdin, Lines("user")) + Hits(stdout', Lines("result"))
                 + One(cli.turn # NoTurn) = One(Busy(m))
        ELSE Hits(stdout', Lines("result")) <= One(Busy(m))
    BY <2>3, <2>4, <2>5, <2>7, PipeFacts DEF InFlight, InCli, One
  <2> QED
    BY <2>2, <2>3, <2>6, <2>7, <2>8, DispatchTurn
<1>9. CASE HandleInterrupt
  BY <1>4, <1>9, HandleInterruptEffect DEF HandleInterrupt, Receive
<1>10. CASE QuarantineInterrupt
  BY <1>4, <1>10, QuarantineInterruptEffect DEF QuarantineInterrupt, Tick
<1>11. CASE HandleStop \/ HandleCancelled
  BY <1>1, <1>11 DEF HandleStop, HandleCancelled
<1>12. CASE HandleResponse
  <2>1. PICK p \in Prompts : Aside /\ (Answered(p) \/ stdin' = stdin)
    BY <1>12, HandleResponseEffect
  <2> QED
    BY <1>2, <1>5, <1>12, <2>1 DEF HandleResponse, Receive
<1>13. CASE ReadPrompt
  <2>1. PICK p \in Prompts : Aside /\ (Answered(p) \/ stdin' = stdin)
    BY <1>13, ReadPromptEffect
  <2>2. ReadStdout("prompt")
    BY <1>13 DEF ReadPrompt
  <2> QED
    BY <1>3, <1>5, <2>1, <2>2 DEF ReadStdout
<1>14. CASE ReadWithdraw
  <2>1. ReadStdout("withdraw") /\ UNCHANGED <<eng, stdin>>
    BY <1>14 DEF ReadWithdraw
  <2> QED
    BY <1>3, <2>1, QuietTurn DEF ReadStdout, SameTurn
<1>15. CASE ReadPromise
  <2>1. ReadStdout("promise") /\ UNCHANGED <<eng, stdin>>
    BY <1>15, ReadPromiseEffect DEF ReadPromise
  <2> QED
    BY <1>3, <2>1, QuietTurn DEF ReadStdout, SameTurn
<1>16. CASE HandleCancelRalph
  <2>1. LoopOnly /\ UNCHANGED <<actor, stdout, cli>>
    BY <1>16, HandleCancelRalphEffect DEF HandleCancelRalph, Receive
  <2> QED
    BY <1>2, <2>1, QuietTurn DEF LoopOnly, Same, SameTickets
<1>17. CASE HandleStartRalph
  <2>1. actor = "running" /\ UNCHANGED <<actor, stdout, cli>>
    BY <1>17 DEF HandleStartRalph, Receive
  <2>2. CASE eng' = eng /\ stdin' = stdin
    BY <2>1, <2>2, QuietTurn DEF SameTurn
  <2>3. CASE \E m \in EngineType : m.out = <<>> /\ Same(eng, m) /\ Moved(m)
    BY <1>6, <2>1, <2>3 DEF Same
  <2> QED
    BY <1>17, <2>2, <2>3, HandleStartRalphEffect
<1>18. CASE HardTimeout
  <2>1. UNCHANGED <<actor, stdin, stdout, cli>> /\ Busy(eng) /\ Busy(eng') /\ eng'.state = eng.state
    BY <1>18, HardTimeoutEffect DEF HardTimeout, Tick, Busy
  <2> QED
    BY <2>1 DEF TurnInv, InFlight, InCli
<1>19. CASE QuarantineKill
  BY <1>1, <1>19, QuarantineKillEffect DEF GivesUp
<1>20. CASE RetryRalph
  BY <1>6, <1>20, RetryRalphEffect, EngineFacts DEF RetryRalph, Tick, SameTurn
<1>21. CASE HandleEof
  BY <1>1, <1>21, HandleEofEffect DEF GivesUp
<1>22. CASE Cleanup
  BY <1>1, <1>22, CleanupEffect
<1> QED
  BY <1>7, <1>8, <1>9, <1>10, <1>11, <1>12, <1>13, <1>14, <1>15, <1>16, <1>17, <1>18, <1>19,
     <1>20, <1>21, <1>22 DEF ActorNext

LEMMA CliTurns ==
    ASSUME TypeInv, TurnInv, CliNext
    PROVE  TurnInv'
<1>1. cli.alive /\ UNCHANGED <<actor, eng>>
  BY DEF CliNext, CliStep, CliTakesTurn, CliTakesAnswer, CliTakesInterrupt, CliPrompts,
         CliWithdrawsPrompt, CliFinishes, CliExits
<1>2. ASSUME cli'.alive, InCli' = InCli
      PROVE  TurnInv'
  BY <1>1, <1>2 DEF TurnInv, InFlight
<1>3. /\ Hits(stdin, Lines("user")) \in Nat /\ Hits(stdout, Lines("result")) \in Nat
      /\ cli \in CliType
  BY PipeFacts
<1>4. CASE CliTakesTurn
  <2>1. PICK t \in Turns :
          /\ cli.turn = NoTurn
          /\ cli' = [cli EXCEPT !.turn = t,
                                !.taken = IF t = Ralph THEN @ ELSE Append(@, t)]
    BY <1>4, CliTakesTurnEffect
  <2>2. cli'.alive /\ cli'.turn # NoTurn
    BY <1>1, <1>3, <2>1, SessionActorAssumption DEF CliType, Turns
  <2>3. CliReads("user") /\ UNCHANGED stdout
    BY <1>4 DEF CliTakesTurn
  <2>4. InCli' = InCli
    BY <1>3, <2>1, <2>2, <2>3, HitsOfTake DEF InCli, One
  <2> QED
    BY <1>2, <2>2, <2>4
<1>5. CASE CliTakesAnswer
  <2>1. CliReads("answer") /\ UNCHANGED stdout
    BY <1>5 DEF CliTakesAnswer
  <2>2. cli'.alive /\ cli'.turn = cli.turn
    BY <1>1, <1>3, <1>5, CliTakesAnswerEffect DEF CliType
  <2>3. InCli' = InCli
    BY <1>3, <2>1, <2>2, HitsOfTake DEF InCli, One
  <2> QED
    BY <1>2, <2>2, <2>3
<1>6. CASE CliTakesInterrupt
  <2>1. CliReads("interrupt")
    BY <1>6 DEF CliTakesInterrupt
  <2>2. CASE cli.turn = NoTurn
    <3>1. UNCHANGED <<cli, stdout>>
      BY <1>6, <2>2, CliTakesInterruptEffect
    <3>2. InCli' = InCli
      BY <1>3, <2>1, <3>1, HitsOfTake DEF InCli, One
    <3> QED
      BY <1>1, <1>2, <3>1, <3>2
  <2>3. CASE cli.turn # NoTurn
    <3>1. cli' = [cli EXCEPT !.turn = NoTurn, !.open = {}] /\ \E lines : Ends(lines)
      BY <1>6, <2>3, CliTakesInterruptEffect
    <3>2. cli'.alive /\ cli'.turn = NoTurn
      BY <1>1, <1>3, <3>1 DEF CliType
    <3>3. Hits(stdout', Lines("result")) = Hits(stdout, Lines("result")) + 1
      BY <3>1, HitsOfEnd
    <3>4. InCli' = InCli
      BY <1>3, <2>1, <2>3, <3>2, <3>3, HitsOfTake DEF InCli, One
    <3> QED
      BY <1>2, <3>2, <3>4
  <2> QED
    BY <2>2, <2>3
<1>7. ASSUME NEW p \in Prompts, NEW k \in {"prompt", "withdraw"}, UNCHANGED stdin,
             stdout' = Append(stdout, Msg(k, p)), cli'.alive, cli'.turn = cli.turn
      PROVE  TurnInv'
  <2>1. Msg(k, p) \in Report /\ Msg(k, p).k = k
    BY DEF Report, Msg
  <2>2. Msg(k, p) \notin Lines("result")
    BY <2>1, KindsOfReport
  <2>3. Hits(stdout', Lines("result")) = Hits(stdout, Lines("result"))
    BY <1>3, <1>7, <2>1, <2>2, PipeFacts, HitsOfAppend
  <2> QED
    BY <1>2, <1>7, <2>3 DEF InCli
<1>8. CASE \E p \in Prompts : CliPrompts(p)
  BY <1>1, <1>3, <1>7, <1>8 DEF CliPrompts, CliType
<1>9. CASE \E p \in Prompts : CliWithdrawsPrompt(p)
  BY <1>1, <1>3, <1>7, <1>9 DEF CliWithdrawsPrompt, CliType
<1>10. CASE \E bad, promise \in BOOLEAN : CliFinishes(bad, promise)
  <2>1. PICK bad \in BOOLEAN, promise \in BOOLEAN : CliFinishes(bad, promise)
    BY <1>10
  <2>2. cli.turn # NoTurn /\ cli' = [cli EXCEPT !.turn = NoTurn] /\ \E lines : Ends(lines)
    BY <2>1, CliFinishesEffect
  <2>3. cli'.alive /\ cli'.turn = NoTurn
    BY <1>1, <1>3, <2>2 DEF CliType
  <2>4. Hits(stdout', Lines("result")) = Hits(stdout, Lines("result")) + 1
    BY <2>2, HitsOfEnd
  <2>5. UNCHANGED stdin
    BY <2>1 DEF CliFinishes
  <2>6. InCli' = InCli
    BY <1>3, <2>2, <2>3, <2>4, <2>5 DEF InCli, One
  <2> QED
    BY <1>2, <2>3, <2>6
<1>11. CASE \E code \in {"zero", "other"} : CliExits(code)
  <2>1. ~cli'.alive /\ UNCHANGED stdout
    BY <1>3, <1>11 DEF CliExits, CliType
  <2> QED
    BY <1>1, <1>3, <2>1 DEF TurnInv, InFlight, InCli, One
<1> QED
  BY <1>4, <1>5, <1>6, <1>8, <1>9, <1>10, <1>11 DEF CliNext

LEMMA TurnsInvariant == Spec => [](TypeInv /\ TurnInv)
<1>1. TurnInv /\ UNCHANGED vars => TurnInv'
  BY DEF vars, TurnInv, InFlight, InCli
<1>2. TypeInv /\ TurnInv /\ [Next]_vars => TurnInv'
  BY <1>1, CallerTurns, ActorTurns, CliTurns DEF Next
<1> QED
  BY <1>2, InitTurns, TypesInvariant, PTL DEF Spec

\* HC #1: at most one turn is in the CLI, whatever timeouts, interrupts and late
\* results did to active_turn.
THEOREM OneTurnHolds == Spec => []OneTurnInCli
<1>1. TypeInv /\ TurnInv => OneTurnInCli
  <2> SUFFICES ASSUME TypeInv, TurnInv, actor = "running", cli.alive
               PROVE  Occurrences(stdin, "user") + Occurrences(stdout, "result")
                        + (IF cli.turn = NoTurn THEN 0 ELSE 1) <= 1
    BY DEF OneTurnInCli
  <2>1. InCli <= 1
    BY DEF TurnInv, InFlight, One
  <2>2. Occurrences(stdin, "user") = Hits(stdin, Lines("user"))
    <3>1. \A i \in DOMAIN stdin : stdin[i] \in Line
      BY PipeFacts
    <3>2. {i \in DOMAIN stdin : stdin[i].k = "user"} = Places(stdin, Lines("user"))
      BY <3>1, KindsOfLine DEF Places
    <3> QED
      BY <3>2 DEF Occurrences, Hits
  <2>3. Occurrences(stdout, "result") = Hits(stdout, Lines("result"))
    <3>1. \A i \in DOMAIN stdout : stdout[i] \in Report
      BY PipeFacts
    <3>2. {i \in DOMAIN stdout : stdout[i].k = "result"} = Places(stdout, Lines("result"))
      BY <3>1, KindsOfReport DEF Places
    <3> QED
      BY <3>2 DEF Occurrences, Hits
  <2> QED
    BY <2>1, <2>2, <2>3 DEF InCli, One
<1> QED
  BY <1>1, TurnsInvariant, PTL

\* try_dispatch runs whenever a turn or a quarantine ends and whenever something is
\* queued: a living CLI never idles over a queued message or a running loop.
THEOREM NothingStallsHolds == Spec => []NothingStalled
<1>1. TurnInv => NothingStalled
  BY DEF TurnInv, NothingStalled, Busy
<1> QED
  BY <1>1, TurnsInvariant, PTL

\* The state that emit_state sent last is "running" exactly during a turn or a
\* quarantine.
THEOREM SpinnerIsHonest == Spec => []SpinnerHonest
<1>1. TurnInv => SpinnerHonest
  BY DEF TurnInv, SpinnerHonest, Busy
<1> QED
  BY <1>1, TurnsInvariant, PTL

-----------------------------------------------------------------------------
(* The verdict.  While the actor runs, a remembered error is the one that   *)
(* the last turn showed; nothing that an earlier turn left decides the end.  *)

ErrorKnown(e) ==
    /\ e.gotError => e.metaError /\ e.outcome = "error"
    /\ e.outcome = "error" => e.gotError
    /\ e.outcome # "timeout"
    /\ Busy(e) => ~e.gotError
    /\ e.status \in {"running", "idle"} /\ e.state \in {"", "running", "idle"}

VerdictInv ==
    /\ actor = "running" => ErrorKnown(eng)
    /\ eng.status \in {"completed", "failed"} => ~cli.alive
    /\ VerdictJustified

LEMMA SameErrors ==
    ASSUME NEW e, NEW d, SameVerdict(e, d), d.state = e.state, Busy(d) => Busy(e),
           ErrorKnown(e)
    PROVE  ErrorKnown(d)
BY DEF SameVerdict, ErrorKnown

LEMMA MovedErrors ==
    ASSUME NEW m, Moved(m), ErrorKnown(m)
    PROVE  ErrorKnown(eng')
<1>1. CASE Stays(m, eng')
  BY <1>1 DEF Stays
<1>2. CASE Fails(m, eng')
  BY <1>2 DEF Moved, Untouched, Fails, ErrorKnown, Busy
<1>3. CASE \E turn \in Turns : Starts(m, eng', turn)
  BY <1>3 DEF Moved, Untouched, Starts, ErrorKnown, Busy
<1> QED
  BY <1>1, <1>2, <1>3 DEF Moved

\* A verdict stands once the process is gone.
LEMMA VerdictStands ==
    ASSUME VerdictInv, SameVerdict(eng, eng'), cli.alive \/ UNCHANGED cli,
           actor' = "running" => ErrorKnown(eng')
    PROVE  VerdictInv'
BY DEF VerdictInv, SameVerdict, VerdictJustified

\* No verdict while the actor runs.
LEMMA NoVerdict ==
    ASSUME ErrorKnown(eng')
    PROVE  VerdictInv'
BY DEF ErrorKnown, VerdictInv, VerdictJustified

LEMMA InitVerdict == Init => VerdictInv
<1> SUFFICES ASSUME Init PROVE VerdictInv
  OBVIOUS
<1>1. PICK status \in {"running", "idle"} :
          eng = [active |-> NoTurn, quarantine |-> FALSE, interruptSent |-> FALSE,
                 queue |-> <<>>, loop |-> NoLoop, pendingInterrupt |-> FALSE,
                 pending |-> {}, remembered |-> FALSE, state |-> "", gotError |-> FALSE,
                 status |-> status, metaError |-> FALSE,
                 reply |-> [t \in Tickets |-> "none"],
                 answers |-> [p \in Prompts |-> 0], interrupted |-> FALSE,
                 outcome |-> "none", out |-> <<>>]
  BY DEF Init
<1>2. /\ eng.gotError = FALSE /\ eng.outcome = "none" /\ eng.status = status /\ eng.state = ""
      /\ eng.active = NoTurn /\ eng.quarantine = FALSE
  BY <1>1
<1> QED
  BY <1>2 DEF VerdictInv, VerdictJustified, ErrorKnown, Busy

LEMMA ActorVerdict ==
    ASSUME TypeInv, TurnInv, VerdictInv, ActorNext
    PROVE  VerdictInv'
<1>1. ASSUME NEW m \in EngineType, Moved(m), SameTurn(eng, m), SameVerdict(eng, m),
             actor = "running"
      PROVE  VerdictInv'
  <2>1. ErrorKnown(m)
    BY <1>1, SameErrors DEF VerdictInv, SameTurn, Busy
  <2> QED
    BY <1>1, <2>1, MovedErrors, NoVerdict
<1>2. ASSUME SameTurn(eng, eng'), SameVerdict(eng, eng'), UNCHANGED <<cli, actor>>
      PROVE  VerdictInv'
  <2>1. actor' = "running" => ErrorKnown(eng')
    BY <1>2, SameErrors DEF VerdictInv, SameTurn, Busy
  <2> QED
    BY <1>2, <2>1, VerdictStands
<1>3. ASSUME NEW expired \in BOOLEAN, HandleSendMessage(expired)
      PROVE  VerdictInv'
  <2>1. PICK t \in Tickets, m \in EngineType : Queued(m, t) /\ Moved(m)
    BY <1>3, HandleSendMessageEffect
  <2> QED
    BY <1>1, <1>3, <2>1 DEF Queued, HandleSendMessage, Receive
<1>4. ASSUME NEW expired \in BOOLEAN, ReadResult(expired)
      PROVE  VerdictInv'
  <2>1. Busy(eng) /\ actor = "running"
    BY <1>4, ResultFindsTurn DEF ReadResult, ReadStdout
  <2>2. PICK m : TurnOver(eng, m) /\ Moved(m)
    BY <1>4, <2>1, ReadResultEffect DEF Busy
  <2>3. ErrorKnown(eng) /\ ~eng.gotError
    BY <2>1 DEF VerdictInv, ErrorKnown
  <2>4. ErrorKnown(m)
    BY <2>2, <2>3 DEF TurnOver, ErrorKnown, Busy
  <2> QED
    BY <2>2, <2>4, MovedErrors, NoVerdict
<1>5. CASE HandleInterrupt \/ QuarantineInterrupt
  <2>1. Interrupts /\ UNCHANGED <<cli, actor>>
    BY <1>5, HandleInterruptEffect, QuarantineInterruptEffect
       DEF HandleInterrupt, QuarantineInterrupt, Receive, Tick
  <2> QED
    BY <1>2, <2>1 DEF Interrupts, Same
<1>6. CASE HandleStop \/ HandleCancelled
  BY <1>6 DEF HandleStop, HandleCancelled, Receive, VerdictInv, VerdictJustified
<1>7. CASE HandleResponse
  BY <1>2, <1>7, HandleResponseEffect DEF HandleResponse, Receive, Aside
<1>8. CASE ReadPrompt
  BY <1>2, <1>8, ReadPromptEffect DEF ReadPrompt, ReadStdout, Aside
<1>9. CASE ReadWithdraw
  BY <1>2, <1>9 DEF ReadWithdraw, ReadStdout, SameTurn, SameVerdict
<1>10. CASE ReadPromise
  BY <1>2, <1>10, ReadPromiseEffect DEF ReadPromise, ReadStdout, SameTurn, SameVerdict
<1>11. CASE HandleCancelRalph
  BY <1>2, <1>11, HandleCancelRalphEffect DEF HandleCancelRalph, Receive, LoopOnly, Same
<1>12. CASE HandleStartRalph
  <2>1. actor = "running" /\ UNCHANGED <<actor, cli>>
    BY <1>12 DEF HandleStartRalph, Receive
  <2>2. CASE eng' = eng
    BY <1>2, <2>1, <2>2 DEF SameTurn, SameVerdict
  <2>3. CASE \E m \in EngineType : m.out = <<>> /\ Same(eng, m) /\ Moved(m)
    BY <1>1, <2>1, <2>3 DEF Same
  <2> QED
    BY <1>12, <2>2, <2>3, HandleStartRalphEffect
<1>13. CASE HardTimeout
  <2>1. SameVerdict(eng, eng') /\ eng'.state = eng.state /\ Busy(eng) /\ actor = "running"
    BY <1>13, HardTimeoutEffect DEF HardTimeout, Tick, Busy
  <2>2. ErrorKnown(eng')
    BY <2>1, SameErrors DEF VerdictInv
  <2> QED
    BY <2>2, NoVerdict
<1>14. CASE QuarantineKill
  <2>1. /\ actor' = "closing" /\ eng'.outcome = "timeout" /\ ~cli'.alive
        /\ eng'.status = IF eng.state = "failed" THEN eng.status ELSE "failed"
    BY <1>14, QuarantineKillEffect DEF GivesUp
  <2>2. eng.state # "failed"
    BY <1>14 DEF QuarantineKill, Tick, VerdictInv, ErrorKnown
  <2> QED
    BY <2>1, <2>2 DEF VerdictInv, VerdictJustified
<1>15. CASE RetryRalph
  BY <1>1, <1>15, RetryRalphEffect, EngineFacts DEF RetryRalph, Tick, SameTurn, SameVerdict
<1>16. CASE HandleEof
  <2>1. ErrorKnown(eng)
    BY <1>16 DEF HandleEof, VerdictInv
  <2>2. /\ actor' = "closing" /\ ~cli'.alive /\ cli' = cli /\ eng'.outcome = eng.outcome
        /\ eng.gotError /\ eng.metaError => eng'.status = "failed"
        /\ ~eng.gotError /\ eng.state \notin {"completed", "failed", "stopped"} =>
              \/ eng'.status = "stopped"
              \/ eng'.status = "completed" /\ cli.code = "zero"
              \/ eng'.status = "failed" /\ cli.code # "zero"
    BY <1>16, HandleEofEffect DEF GivesUp
  <2>3. cli.code \in {"zero", "other", "signal"}
    BY <2>2 DEF TypeInv, CliShape, CliType
  <2>4. eng.gotError \in BOOLEAN
    BY EngineFacts, FieldTypes
  <2> QED
    BY <2>1, <2>2, <2>3, <2>4 DEF ErrorKnown, VerdictInv, VerdictJustified
<1>17. CASE Cleanup
  <2>1. SameVerdict(eng, eng') /\ UNCHANGED cli /\ actor' = "gone"
    BY <1>17, CleanupEffect
  <2> QED
    BY <2>1, VerdictStands
<1> QED
  BY <1>3, <1>4, <1>5, <1>6, <1>7, <1>8, <1>9, <1>10, <1>11, <1>12, <1>13, <1>14, <1>15,
     <1>16, <1>17 DEF ActorNext

LEMMA OtherVerdict ==
    ASSUME TypeInv, VerdictInv, CallerNext \/ CliNext
    PROVE  VerdictInv'
<1>1. CASE \E t \in Tickets : SendMessage(t)
  <2>1. PICK t \in Tickets : SendMessage(t)
    BY <1>1
  <2>2. SameTurn(eng, eng') /\ SameVerdict(eng, eng') /\ UNCHANGED <<actor, cli>>
    BY <2>1, SendMessageEffect
  <2>3. actor' = "running" => ErrorKnown(eng')
    BY <2>2, SameErrors DEF VerdictInv, SameTurn, Busy
  <2> QED
    BY <2>2, <2>3, VerdictStands
<1>2. CASE UNCHANGED <<actor, eng, cli>>
  BY <1>2 DEF VerdictInv, VerdictJustified
<1>3. CASE CliNext
  <2>1. cli.alive /\ UNCHANGED <<actor, eng>>
    BY <1>3
       DEF CliNext, CliStep, CliTakesTurn, CliTakesAnswer, CliTakesInterrupt, CliPrompts,
           CliWithdrawsPrompt, CliFinishes, CliExits
  <2> QED
    BY <2>1, VerdictStands DEF SameVerdict, VerdictInv
<1> QED
  BY <1>1, <1>2, <1>3
     DEF CallerNext, Interrupt, StopSession, StartRalphLoop, CancelRalphLoop, AppExit, Respond,
         Post

\* A run ends failed or completed for a reason of its last turn or of the exit, and
\* for nothing an earlier turn left in memory or in meta.json.
THEOREM VerdictIsJustified == Spec => []VerdictJustified
<1>1. VerdictInv /\ UNCHANGED vars => VerdictInv'
  BY DEF vars, VerdictInv, VerdictJustified
<1>2. TypeInv /\ TurnInv /\ VerdictInv /\ [Next]_vars => VerdictInv'
  BY <1>1, ActorVerdict, OtherVerdict DEF Next
<1>3. VerdictInv => VerdictJustified
  BY DEF VerdictInv
<1> QED
  BY <1>2, <1>3, InitVerdict, TurnsInvariant, PTL DEF Spec

-----------------------------------------------------------------------------
(* Messages.  A ticket whose caller waits is in the mailbox or in the queue, *)
(* once; a ticket whose message was written is one whose caller was told ok. *)

LEMMA ContainsOfAppend ==
    ASSUME NEW T, NEW s \in Seq(T), NEW e \in T, NEW x
    PROVE  Contains(Append(s, e), x) <=> Contains(s, x) \/ x = e
<1> DEFINE t == Append(s, e)
           n == Len(s)
<1>1. /\ n \in Nat /\ Len(t) = n + 1 /\ t[n + 1] = e
      /\ \A i \in 1 .. n : t[i] = s[i]
  BY AppendProperties
<1> HIDE DEF t, n
<1>2. Contains(t, x) <=> (\E i \in 1 .. n : s[i] = x) \/ x = e
  BY <1>1 DEF Contains
<1> QED
  BY <1>2 DEF Contains, t, n

LEMMA ContainsOfTail ==
    ASSUME NEW T, NEW s \in Seq(T), s # <<>>, NEW x
    PROVE  Contains(s, x) <=> Contains(Tail(s), x) \/ Head(s) = x
<1> DEFINE t == Tail(s)
           n == Len(s)
<1>1. /\ n \in Nat \ {0} /\ Len(t) = n - 1 /\ Head(s) = s[1]
      /\ \A i \in 1 .. n - 1 : t[i] = s[i + 1]
  BY HeadTailProperties, EmptySeq
<1> HIDE DEF t, n
<1>2. (\E i \in 1 .. n : s[i] = x) <=> (\E i \in 1 .. n - 1 : t[i] = x) \/ s[1] = x
  <2>1. ASSUME NEW i \in 1 .. n, s[i] = x, i # 1
        PROVE  i - 1 \in 1 .. n - 1 /\ t[i - 1] = x
    BY <1>1, <2>1
  <2>2. ASSUME NEW i \in 1 .. n - 1, t[i] = x
        PROVE  i + 1 \in 1 .. n /\ s[i + 1] = x
    BY <1>1, <2>2
  <2>3. 1 \in 1 .. n
    BY <1>1
  <2> QED
    BY <2>1, <2>2, <2>3
<1> QED
  BY <1>1, <1>2 DEF Contains, t, n

LEMMA ContainsIsHit ==
    ASSUME NEW T, NEW s \in Seq(T), NEW x
    PROVE  /\ Hits(s, {x}) \in Nat
           /\ Contains(s, x) <=> Hits(s, {x}) # 0
BY PlacesFinite, HitsIsZero DEF Contains

Waiting(e, box, t) == Hits(box, {Cmd("send", t)}) + Hits(e.queue, {t})

\* The caller of t waits exactly when t is somewhere, and then once.
Placed(e, box, t) == Waiting(e, box, t) = One(e.reply[t] = "waiting")

Written(t) == Contains(cli.taken, t) \/ Contains(stdin, Msg("user", t))

TicketInv ==
    /\ \A t \in Tickets : Placed(eng, mailbox, t)
    /\ \A t \in Tickets : Written(t) => eng.reply[t] = "ok"

LEMMA TicketFacts ==
    ASSUME NEW e \in EngineType, NEW box \in Seq(Order), NEW t \in Tickets
    PROVE  /\ e.reply[t] \in {"none", "waiting", "ok", "err"}
           /\ Hits(box, {Cmd("send", t)}) \in Nat /\ Hits(e.queue, {t}) \in Nat
BY FieldTypes, PlacesFinite

LEMMA CliFacts ==
    ASSUME TypeInv
    PROVE  cli.taken \in Seq(Tickets) /\ stdin \in Seq(Line)
BY DEF TypeInv, CliShape, CliType

\* What is read from stdin or never written there stays unwritten.
LEMMA StillWritten ==
    ASSUME TypeInv, NEW t \in Tickets, UNCHANGED cli,
           \/ stdin' = stdin
           \/ \E l \in Line : l.k # "user" /\ stdin' = Append(stdin, l)
    PROVE  Written(t)' => Written(t)
<1>1. CASE stdin' = stdin
  BY <1>1 DEF Written
<1>2. ASSUME NEW l \in Line, l.k # "user", stdin' = Append(stdin, l)
      PROVE  Written(t)' => Written(t)
  <2>1. Contains(stdin', Msg("user", t)) <=> Contains(stdin, Msg("user", t)) \/ Msg("user", t) = l
    BY <1>2, CliFacts, ContainsOfAppend
  <2>2. Msg("user", t) # l
    BY <1>2 DEF Msg
  <2> QED
    BY <2>1, <2>2 DEF Written
<1> QED
  BY <1>1, <1>2

\* A step that touches no ticket, in the engine or in the mailbox.
LEMMA QuietTickets ==
    ASSUME TypeInv, TicketInv, SameTickets(eng, eng'),
           \A t \in Tickets :
               Hits(mailbox', {Cmd("send", t)}) = Hits(mailbox, {Cmd("send", t)}),
           \A t \in Tickets : Written(t)' => Written(t)
    PROVE  TicketInv'
BY DEF TicketInv, SameTickets, Placed, Waiting

LEMMA OtherOrder ==
    ASSUME TypeInv, NEW k, k # "send", Receive(k), NEW t \in Tickets
    PROVE  Hits(mailbox', {Cmd("send", t)}) = Hits(mailbox, {Cmd("send", t)})
<1>1. /\ mailbox # <<>> /\ Head(mailbox).k # "send" /\ mailbox' = Tail(mailbox)
      /\ mailbox \in Seq(Order) /\ mailbox' \in Seq(Order)
  BY ReceiveEffect DEF TypeInv
<1>2. Head(mailbox) \notin {Cmd("send", t)}
  BY <1>1 DEF Cmd
<1>3. Hits(mailbox, {Cmd("send", t)}) = Hits(Tail(mailbox), {Cmd("send", t)})
          + (IF Head(mailbox) \in {Cmd("send", t)} THEN 1 ELSE 0)
  BY <1>1, HitsOfTail
<1>4. Hits(Tail(mailbox), {Cmd("send", t)}) \in Nat
  BY <1>1, PlacesFinite
<1>5. Hits(mailbox, {Cmd("send", t)}) = Hits(Tail(mailbox), {Cmd("send", t)})
  BY <1>2, <1>3, <1>4
<1> QED
  BY <1>1, <1>5

LEMMA OtherPost ==
    ASSUME TypeInv, NEW c \in Order, c.k # "send", mailbox' = Append(mailbox, c),
           NEW t \in Tickets
    PROVE  Hits(mailbox', {Cmd("send", t)}) = Hits(mailbox, {Cmd("send", t)})
<1>1. mailbox \in Seq(Order)
  BY DEF TypeInv
<1>2. c \notin {Cmd("send", t)}
  BY DEF Cmd
<1>3. Hits(Append(mailbox, c), {Cmd("send", t)}) = Hits(mailbox, {Cmd("send", t)})
          + (IF c \in {Cmd("send", t)} THEN 1 ELSE 0)
  BY <1>1, HitsOfAppend
<1>4. Hits(mailbox, {Cmd("send", t)}) \in Nat
  BY <1>1, PlacesFinite
<1> QED
  BY <1>2, <1>3, <1>4

\* The queue of e lost its head, and only its head's caller was answered.
LEMMA HeadAnswered ==
    ASSUME NEW e \in EngineType, NEW d \in EngineType, e.queue # <<>>,
           d.queue = Tail(e.queue), NEW verdict \in {"ok", "err"},
           d.reply = [e.reply EXCEPT ![Head(e.queue)] = verdict],
           NEW box \in Seq(Order), NEW t \in Tickets,
           Placed(e, box, t)
    PROVE  /\ Placed(d, box, t)
           /\ t = Head(e.queue) => e.reply[t] = "waiting" /\ d.reply[t] = verdict
           /\ t # Head(e.queue) => d.reply[t] = e.reply[t]
<1>1. e.queue \in Seq(Tickets) /\ Head(e.queue) \in Tickets
  BY FieldTypes, HeadTailProperties
<1>2. Hits(e.queue, {t}) = Hits(Tail(e.queue), {t}) + (IF Head(e.queue) \in {t} THEN 1 ELSE 0)
  BY <1>1, HitsOfTail
<1>3. /\ Hits(d.queue, {t}) \in Nat /\ Hits(box, {Cmd("send", t)}) \in Nat
  BY TicketFacts
<1>4. d.reply[t] = IF t = Head(e.queue) THEN verdict ELSE e.reply[t]
  BY <1>1, FieldTypes
<1>5. CASE t = Head(e.queue)
  <2>1. Hits(e.queue, {t}) = Hits(d.queue, {t}) + 1
    BY <1>2, <1>5
  <2>2. e.reply[t] = "waiting"
    BY <1>3, <2>1 DEF Placed, Waiting, One
  <2>3. Waiting(d, box, t) = 0
    BY <1>3, <2>1, <2>2 DEF Placed, Waiting, One
  <2> QED
    BY <1>4, <1>5, <2>2, <2>3 DEF Placed, One
<1>6. CASE t # Head(e.queue)
  <2>1. Hits(e.queue, {t}) = Hits(d.queue, {t})
    BY <1>2, <1>3, <1>6
  <2> QED
    BY <1>4, <1>6, <2>1 DEF Placed, Waiting
<1> QED
  BY <1>5, <1>6

\* A step that ends in a dispatch, from an engine m that is right about its tickets.
LEMMA DispatchTickets ==
    ASSUME TypeInv, NEW m \in EngineType, Moved(m), UNCHANGED cli, mailbox' \in Seq(Order),
           \A t \in Tickets : Placed(m, mailbox', t),
           \A t \in Tickets : Written(t) => m.reply[t] = "ok"
    PROVE  TicketInv'
<1>1. eng' \in EngineType
  BY DEF Moved
<1>2. CASE Stays(m, eng') /\ stdin' = stdin
  BY <1>2 DEF Stays, TicketInv, Written
<1>3. CASE Fails(m, eng') /\ stdin' = stdin
  <2>1. CASE eng'.queue = m.queue /\ eng'.reply = m.reply
    BY <1>3, <2>1 DEF TicketInv, Written, Placed, Waiting
  <2>2. CASE /\ m.queue # <<>> /\ eng'.queue = Tail(m.queue)
             /\ eng'.reply = [m.reply EXCEPT ![Head(m.queue)] = "err"]
    <3>1. ASSUME NEW t \in Tickets
          PROVE  /\ Placed(eng', mailbox', t)
                 /\ Written(t)' => eng'.reply[t] = "ok"
      <4>1. /\ Placed(eng', mailbox', t)
            /\ t = Head(m.queue) => m.reply[t] = "waiting"
            /\ t # Head(m.queue) => eng'.reply[t] = m.reply[t]
        BY <1>1, <2>2, HeadAnswered
      <4>2. Written(t)' => Written(t)
        BY <1>3 DEF Written
      <4> QED
        BY <4>1, <4>2
    <3> QED
      BY <3>1 DEF TicketInv
  <2> QED
    BY <1>3, <2>1, <2>2 DEF Fails
<1>4. ASSUME NEW turn \in Turns, Starts(m, eng', turn), stdin' = Append(stdin, Msg("user", turn))
      PROVE  TicketInv'
  <2>1. Msg("user", turn) \in Line
    BY DEF Line
  <2>2. ASSUME NEW t \in Tickets
        PROVE  Written(t)' => Written(t) \/ t = turn
    <3>1. Contains(stdin', Msg("user", t)) <=>
              Contains(stdin, Msg("user", t)) \/ Msg("user", t) = Msg("user", turn)
      BY <1>4, <2>1, CliFacts, ContainsOfAppend
    <3>2. Msg("user", t) = Msg("user", turn) => t = turn
      BY DEF Msg
    <3> QED
      BY <3>1, <3>2 DEF Written
  <2>3. CASE turn = Ralph
    <3>1. eng'.queue = m.queue /\ eng'.reply = m.reply
      BY <1>4, <2>3 DEF Starts
    <3>2. \A t \in Tickets : t # turn
      BY <2>3, SessionActorAssumption
    <3> QED
      BY <2>2, <3>1, <3>2 DEF TicketInv, Placed, Waiting
  <2>4. CASE turn # Ralph
    <3>1. turn = Head(m.queue)
      BY <1>4, <2>4 DEF Starts
    <3>2. /\ m.queue # <<>> /\ eng'.queue = Tail(m.queue)
          /\ eng'.reply = [m.reply EXCEPT ![Head(m.queue)] = "ok"]
      BY <1>4, <2>4 DEF Starts
    <3>3. ASSUME NEW t \in Tickets
          PROVE  /\ Placed(eng', mailbox', t)
                 /\ Written(t)' => eng'.reply[t] = "ok"
      <4>1. /\ Placed(eng', mailbox', t)
            /\ t = Head(m.queue) => eng'.reply[t] = "ok"
            /\ t # Head(m.queue) => eng'.reply[t] = m.reply[t]
        BY <1>1, <3>2, HeadAnswered, ZenonT(60)
      <4> QED
        BY <2>2, <3>1, <4>1
    <3> QED
      BY <3>3 DEF TicketInv
  <2> QED
    BY <2>3, <2>4
<1> QED
  BY <1>2, <1>3, <1>4 DEF Moved

LEMMA InitTickets == Init => TicketInv
<1> SUFFICES ASSUME Init, NEW t \in Tickets
             PROVE  Placed(eng, mailbox, t) /\ (Written(t) => eng.reply[t] = "ok")
  BY DEF TicketInv
<1>1. PICK status \in {"running", "idle"} :
          eng = [active |-> NoTurn, quarantine |-> FALSE, interruptSent |-> FALSE,
                 queue |-> <<>>, loop |-> NoLoop, pendingInterrupt |-> FALSE,
                 pending |-> {}, remembered |-> FALSE, state |-> "", gotError |-> FALSE,
                 status |-> status, metaError |-> FALSE,
                 reply |-> [u \in Tickets |-> "none"],
                 answers |-> [p \in Prompts |-> 0], interrupted |-> FALSE,
                 outcome |-> "none", out |-> <<>>]
  BY DEF Init
<1>2. eng.queue = <<>> /\ eng.reply[t] = "none"
  BY <1>1
<1>3. mailbox = <<>> /\ stdin = <<>> /\ cli.taken = <<>>
  BY DEF Init
<1>4. Hits(mailbox, {Cmd("send", t)}) = 0 /\ Hits(eng.queue, {t}) = 0
  BY <1>2, <1>3, HitsOfEmpty
<1>5. Placed(eng, mailbox, t)
  BY <1>2, <1>4 DEF Placed, Waiting, One
<1>6. ~Written(t)
  BY <1>3 DEF Written, Contains
<1> QED
  BY <1>5, <1>6

LEMMA SendTickets ==
    ASSUME TypeInv, TicketInv, NEW u \in Tickets, SendMessage(u)
    PROVE  TicketInv'
<1>1. /\ eng' \in EngineType /\ eng'.queue = eng.queue
      /\ eng.reply[u] = "none" /\ eng'.reply = [eng.reply EXCEPT ![u] = "waiting"]
      /\ mailbox' = Append(mailbox, Cmd("send", u)) /\ UNCHANGED <<stdin, cli>>
  BY SendMessageEffect
<1>2. mailbox \in Seq(Order) /\ Cmd("send", u) \in Order /\ eng \in EngineType
  BY EngineFacts DEF TypeInv, Order
<1>3. ASSUME NEW t \in Tickets
      PROVE  Placed(eng', mailbox', t) /\ (Written(t)' => eng'.reply[t] = "ok")
  <2>1. Placed(eng, mailbox, t) /\ (Written(t) => eng.reply[t] = "ok")
    BY DEF TicketInv
  <2>2. Written(t)' => Written(t)
    BY <1>1 DEF Written
  <2>3. Hits(Append(mailbox, Cmd("send", u)), {Cmd("send", t)}) =
            Hits(mailbox, {Cmd("send", t)})
                + (IF Cmd("send", u) \in {Cmd("send", t)} THEN 1 ELSE 0)
    BY <1>2, HitsOfAppend
  <2>4. Cmd("send", u) \in {Cmd("send", t)} <=> u = t
    BY DEF Cmd
  <2>5. Hits(mailbox, {Cmd("send", t)}) \in Nat /\ Hits(eng.queue, {t}) \in Nat
    BY <1>2, TicketFacts
  <2>6. Hits(mailbox', {Cmd("send", t)}) =
            Hits(mailbox, {Cmd("send", t)}) + (IF u = t THEN 1 ELSE 0)
    BY <1>1, <2>3, <2>4
  <2>7. eng'.reply[t] = IF u = t THEN "waiting" ELSE eng.reply[t]
    BY <1>1, <1>2, FieldTypes
  <2>8. CASE u = t
    <3>1. Waiting(eng, mailbox, t) = 0
      BY <1>1, <2>1, <2>8 DEF Placed, One
    <3>2. Waiting(eng', mailbox', t) = 1
      BY <1>1, <2>5, <2>6, <2>8, <3>1 DEF Waiting
    <3>3. Placed(eng', mailbox', t)
      BY <2>7, <2>8, <3>2 DEF Placed, One
    <3> QED
      BY <1>1, <2>1, <2>2, <2>8, <3>3
  <2>9. CASE u # t
    <3>1. Waiting(eng', mailbox', t) = Waiting(eng, mailbox, t)
      BY <1>1, <2>5, <2>6, <2>9 DEF Waiting
    <3> QED
      BY <2>1, <2>2, <2>7, <2>9, <3>1 DEF Placed
  <2> QED
    BY <2>8, <2>9
<1> QED
  BY <1>3 DEF TicketInv

LEMMA CallerTickets ==
    ASSUME TypeInv, TicketInv, CallerNext
    PROVE  TicketInv'
<1>1. CASE \E t \in Tickets : SendMessage(t)
  BY <1>1, SendTickets
<1>2. ASSUME NEW c \in Order, c.k # "send", Post(c), UNCHANGED eng
      PROVE  TicketInv'
  <2>1. mailbox' = Append(mailbox, c) /\ UNCHANGED <<stdin, cli>>
    BY <1>2 DEF Post
  <2>2. \A t \in Tickets : Hits(mailbox', {Cmd("send", t)}) = Hits(mailbox, {Cmd("send", t)})
    BY <1>2, <2>1, OtherPost
  <2>3. \A t \in Tickets : Written(t)' => Written(t)
    BY <2>1 DEF Written
  <2>4. SameTickets(eng, eng')
    BY <1>2 DEF SameTickets
  <2> QED
    BY <2>2, <2>3, <2>4, QuietTickets
<1>3. ASSUME NEW k \in {"interrupt", "stop", "ralph", "unralph"}, Post(Cmd(k, NoTurn)),
             UNCHANGED eng
      PROVE  TicketInv'
  <2>1. Cmd(k, NoTurn) \in Order /\ Cmd(k, NoTurn).k # "send"
    BY DEF Order, Cmd
  <2> QED
    BY <1>2, <1>3, <2>1
<1>4. ASSUME NEW p \in Prompts, NEW keep \in BOOLEAN, Respond(p, keep)
      PROVE  TicketInv'
  <2> DEFINE c == [k |-> "answer", of |-> p, keep |-> keep]
  <2>1. c \in Order /\ c.k # "send"
    BY DEF Order
  <2>2. Post(c) /\ UNCHANGED eng
    BY <1>4 DEF Respond, AnswerCmd
  <2> HIDE DEF c
  <2> QED
    BY <1>2, <2>1, <2>2
<1>5. CASE AppExit
  BY <1>5 DEF AppExit, TicketInv, Placed, Waiting, Written
<1> QED
  BY <1>1, <1>3, <1>4, <1>5
     DEF CallerNext, Interrupt, StopSession, StartRalphLoop, CancelRalphLoop

\* Who is told err was waiting, so nothing of his was written.
LEMMA GivesUpTickets ==
    ASSUME TypeInv, TicketInv, GivesUp, UNCHANGED mailbox, cli'.taken = cli.taken
    PROVE  TicketInv'
<1>1. eng \in EngineType /\ mailbox \in Seq(Order)
  BY EngineFacts DEF TypeInv
<1>2. eng' \in EngineType /\ Failed(eng, eng') /\ stdin' = stdin
  BY DEF GivesUp
<1>3. ASSUME NEW t \in Tickets
      PROVE  Placed(eng', mailbox', t) /\ (Written(t)' => eng'.reply[t] = "ok")
  <2>1. Placed(eng, mailbox, t) /\ (Written(t) => eng.reply[t] = "ok")
    BY DEF TicketInv
  <2>2. Written(t)' => Written(t)
    BY <1>2 DEF Written
  <2>3. Hits(mailbox, {Cmd("send", t)}) \in Nat /\ Hits(eng.queue, {t}) \in Nat
    BY <1>1, TicketFacts
  <2>4. Contains(eng.queue, t) <=> Hits(eng.queue, {t}) # 0
    BY <1>1, FieldTypes, ContainsIsHit
  <2>5. Hits(eng'.queue, {t}) = 0
    BY <1>2, HitsOfEmpty DEF Failed
  <2>6. eng'.reply[t] = IF Contains(eng.queue, t) THEN "err" ELSE eng.reply[t]
    BY <1>2 DEF Failed
  <2>7. CASE Contains(eng.queue, t)
    <3>1. eng.reply[t] = "waiting" /\ Waiting(eng', mailbox', t) = 0
      BY <2>1, <2>3, <2>4, <2>5, <2>7 DEF Placed, Waiting, One
    <3> QED
      BY <2>1, <2>2, <2>6, <2>7, <3>1 DEF Placed, One
  <2>8. CASE ~Contains(eng.queue, t)
    <3>1. Waiting(eng', mailbox', t) = Waiting(eng, mailbox, t)
      BY <2>3, <2>4, <2>5, <2>8 DEF Waiting
    <3> QED
      BY <2>1, <2>2, <2>6, <2>8, <3>1 DEF Placed
  <2> QED
    BY <2>7, <2>8
<1> QED
  BY <1>3 DEF TicketInv

\* The reply channels that cleanup drops are those of the messages in the mailbox.
LEMMA DroppedTickets ==
    ASSUME TypeInv, NEW t \in Tickets
    PROVE  t \in Dropped <=> Hits(mailbox, {Cmd("send", t)}) # 0
<1>1. mailbox \in Seq(Order)
  BY DEF TypeInv
<1>2. \A i \in DOMAIN mailbox : mailbox[i] \in Order
  BY <1>1
<1>3. ASSUME NEW i \in DOMAIN mailbox
      PROVE  mailbox[i].k = "send" /\ mailbox[i].of = t <=> mailbox[i] = Cmd("send", t)
  BY <1>2, OrderKinds DEF Cmd
<1>4. t \in Dropped <=> \E i \in DOMAIN mailbox : mailbox[i] = Cmd("send", t)
  BY <1>3 DEF Dropped
<1>5. DOMAIN mailbox = 1 .. Len(mailbox)
  BY <1>1
<1>6. t \in Dropped <=> Contains(mailbox, Cmd("send", t))
  BY <1>4, <1>5 DEF Contains
<1> QED
  BY <1>1, <1>6, ContainsIsHit

LEMMA CleanupTickets ==
    ASSUME TypeInv, TicketInv, Cleanup
    PROVE  TicketInv'
<1>1. eng \in EngineType /\ mailbox \in Seq(Order)
  BY EngineFacts DEF TypeInv
<1>2. /\ eng'.queue = <<>> /\ mailbox' = <<>> /\ UNCHANGED <<stdin, cli>>
      /\ eng'.reply = [t \in Tickets |->
              IF t \in Dropped \/ Contains(eng.queue, t) THEN "err" ELSE eng.reply[t]]
  BY CleanupEffect
<1>3. ASSUME NEW t \in Tickets
      PROVE  Placed(eng', mailbox', t) /\ (Written(t)' => eng'.reply[t] = "ok")
  <2>1. Placed(eng, mailbox, t) /\ (Written(t) => eng.reply[t] = "ok")
    BY DEF TicketInv
  <2>2. Written(t)' => Written(t)
    BY <1>2 DEF Written
  <2>3. Hits(mailbox, {Cmd("send", t)}) \in Nat /\ Hits(eng.queue, {t}) \in Nat
    BY <1>1, TicketFacts
  <2>4. Contains(eng.queue, t) <=> Hits(eng.queue, {t}) # 0
    BY <1>1, FieldTypes, ContainsIsHit
  <2>5. Hits(eng'.queue, {t}) = 0 /\ Hits(mailbox', {Cmd("send", t)}) = 0
    BY <1>2, HitsOfEmpty
  <2>6. Waiting(eng', mailbox', t) = 0
    BY <2>5 DEF Waiting
  <2>7. CASE t \in Dropped \/ Contains(eng.queue, t)
    <3>1. eng.reply[t] = "waiting"
      BY <2>1, <2>3, <2>4, <2>7, DroppedTickets DEF Placed, Waiting, One
    <3>2. eng'.reply[t] = "err"
      BY <1>2, <2>7
    <3> QED
      BY <2>1, <2>2, <2>6, <3>1, <3>2 DEF Placed, One
  <2>8. CASE ~(t \in Dropped \/ Contains(eng.queue, t))
    <3>1. eng.reply[t] # "waiting"
      BY <2>1, <2>3, <2>4, <2>8, DroppedTickets DEF Placed, Waiting, One
    <3>2. eng'.reply[t] = eng.reply[t]
      BY <1>2, <2>8
    <3> QED
      BY <2>1, <2>2, <2>6, <3>1, <3>2 DEF Placed, One
  <2> QED
    BY <2>7, <2>8
<1> QED
  BY <1>3 DEF TicketInv

LEMMA ActorTickets ==
    ASSUME TypeInv, TicketInv, ActorNext
    PROVE  TicketInv'
<1>1. ASSUME UNCHANGED mailbox, NEW t \in Tickets
      PROVE  Hits(mailbox', {Cmd("send", t)}) = Hits(mailbox, {Cmd("send", t)})
  BY <1>1
<1>2. ASSUME NEW k, k # "send", Receive(k), NEW t \in Tickets
      PROVE  Hits(mailbox', {Cmd("send", t)}) = Hits(mailbox, {Cmd("send", t)})
  BY <1>2, OtherOrder
<1>3. ASSUME NEW m \in EngineType, Moved(m), SameTickets(eng, m), UNCHANGED cli,
             \A t \in Tickets :
                 Hits(mailbox', {Cmd("send", t)}) = Hits(mailbox, {Cmd("send", t)}),
             mailbox' \in Seq(Order)
      PROVE  TicketInv'
  <2>1. \A t \in Tickets : Placed(m, mailbox', t) /\ (Written(t) => m.reply[t] = "ok")
    BY <1>3 DEF TicketInv, SameTickets, Placed, Waiting
  <2> QED
    BY <1>3, <2>1, DispatchTickets
<1>4. ASSUME SameTickets(eng, eng'), UNCHANGED cli,
             \/ stdin' = stdin
             \/ \E l \in Line : l.k # "user" /\ stdin' = Append(stdin, l),
             \A t \in Tickets :
                 Hits(mailbox', {Cmd("send", t)}) = Hits(mailbox, {Cmd("send", t)})
      PROVE  TicketInv'
  <2>1. \A t \in Tickets : Written(t)' => Written(t)
    BY <1>4, StillWritten
  <2> QED
    BY <1>4, <2>1, QuietTickets
<1>5. ASSUME NEW expired \in BOOLEAN, HandleSendMessage(expired)
      PROVE  TicketInv'
  <2>1. PICK u \in Tickets, m \in EngineType :
            Head(mailbox) = Cmd("send", u) /\ Queued(m, u) /\ Moved(m)
    BY <1>5, HandleSendMessageEffect
  <2>2. /\ mailbox # <<>> /\ mailbox' = Tail(mailbox) /\ mailbox \in Seq(Order)
        /\ mailbox' \in Seq(Order) /\ UNCHANGED cli
    BY <1>5, ReceiveEffect DEF HandleSendMessage, TypeInv, Receive
  <2>3. m.queue = Append(eng.queue, u) /\ m.reply = eng.reply /\ eng \in EngineType
    BY <2>1, EngineFacts DEF Queued
  <2>4. ASSUME NEW t \in Tickets
        PROVE  Placed(m, mailbox', t) /\ (Written(t) => m.reply[t] = "ok")
    <3>1. Placed(eng, mailbox, t) /\ (Written(t) => eng.reply[t] = "ok")
      BY DEF TicketInv
    <3>2. Hits(mailbox, {Cmd("send", t)}) = Hits(Tail(mailbox), {Cmd("send", t)})
              + (IF Head(mailbox) \in {Cmd("send", t)} THEN 1 ELSE 0)
      BY <2>2, HitsOfTail
    <3>3. Hits(Append(eng.queue, u), {t}) =
              Hits(eng.queue, {t}) + (IF u \in {t} THEN 1 ELSE 0)
      BY <2>3, FieldTypes, HitsOfAppend
    <3>4. Head(mailbox) \in {Cmd("send", t)} <=> u \in {t}
      <4>1. Cmd("send", u) = Cmd("send", t) <=> u = t
        BY DEF Cmd
      <4>2. Head(mailbox) = Cmd("send", u)
        BY <2>1
      <4> QED
        BY <4>1, <4>2
    <3>5. Hits(mailbox', {Cmd("send", t)}) \in Nat /\ Hits(eng.queue, {t}) \in Nat
      BY <2>2, <2>3, TicketFacts
    <3>6. Waiting(m, mailbox', t) = Waiting(eng, mailbox, t)
      BY <2>2, <2>3, <3>2, <3>3, <3>4, <3>5 DEF Waiting
    <3> QED
      BY <2>3, <3>1, <3>6 DEF Placed
  <2> QED
    BY <2>1, <2>2, <2>4, DispatchTickets
<1>6. ASSUME NEW expired \in BOOLEAN, ReadResult(expired)
      PROVE  TicketInv'
  <2>1. PICK m : /\ TurnOver(eng, m)
                 /\ IF eng.active = NoTurn /\ ~eng.quarantine
                    THEN eng' = m /\ stdin' = stdin ELSE Moved(m)
    BY <1>6, ReadResultEffect
  <2>2. UNCHANGED <<cli, mailbox>> /\ mailbox' \in Seq(Order)
    BY <1>6 DEF ReadResult, ReadStdout, TypeInv
  <2>3. CASE Moved(m)
    BY <1>1, <1>3, <2>1, <2>2, <2>3 DEF TurnOver
  <2>4. CASE eng' = m /\ stdin' = stdin
    BY <1>1, <1>4, <2>1, <2>2, <2>4 DEF TurnOver
  <2> QED
    BY <2>1, <2>3, <2>4
<1>7. ASSUME Interrupts
      PROVE  /\ SameTickets(eng, eng')
             /\ \/ stdin' = stdin
                \/ \E l \in Line : l.k # "user" /\ stdin' = Append(stdin, l)
  <2>1. Msg("interrupt", NoTurn) \in Line /\ Msg("interrupt", NoTurn).k # "user"
    BY DEF Line, Msg
  <2> QED
    BY <1>7, <2>1 DEF Interrupts, Same, Wrote
<1>8. CASE HandleInterrupt
  BY <1>2, <1>4, <1>7, <1>8, HandleInterruptEffect DEF HandleInterrupt, Receive
<1>9. CASE QuarantineInterrupt
  BY <1>1, <1>4, <1>7, <1>9, QuarantineInterruptEffect DEF QuarantineInterrupt, Tick
<1>10. CASE HandleStop
  BY <1>2, <1>4, <1>10 DEF HandleStop, Receive, SameTickets
<1>11. CASE HandleCancelled \/ ReadWithdraw
  BY <1>1, <1>4, <1>11 DEF HandleCancelled, ReadWithdraw, ReadStdout, SameTickets
<1>12. ASSUME NEW p \in Prompts, Answered(p)
       PROVE  \/ stdin' = stdin
              \/ \E l \in Line : l.k # "user" /\ stdin' = Append(stdin, l)
  <2>1. Msg("answer", p) \in Line /\ Msg("answer", p).k # "user"
    BY DEF Line, Msg
  <2> QED
    BY <1>12, <2>1 DEF Answered
<1>13. CASE HandleResponse
  <2>1. PICK p \in Prompts : Aside /\ (Answered(p) \/ stdin' = stdin)
    BY <1>13, HandleResponseEffect
  <2>2. Receive("answer") /\ UNCHANGED cli
    BY <1>13 DEF HandleResponse, Receive
  <2> QED
    BY <1>2, <1>4, <1>12, <2>1, <2>2 DEF Aside
<1>14. CASE ReadPrompt
  <2>1. PICK p \in Prompts : Aside /\ (Answered(p) \/ stdin' = stdin)
    BY <1>14, ReadPromptEffect
  <2>2. UNCHANGED <<mailbox, cli>>
    BY <1>14 DEF ReadPrompt, ReadStdout
  <2> QED
    BY <1>1, <1>4, <1>12, <2>1, <2>2 DEF Aside
<1>15. CASE ReadPromise
  BY <1>1, <1>4, <1>15, ReadPromiseEffect DEF ReadPromise, ReadStdout, SameTickets
<1>16. CASE HandleCancelRalph
  <2>1. LoopOnly /\ Receive("unralph") /\ UNCHANGED cli
    BY <1>16, HandleCancelRalphEffect DEF HandleCancelRalph, Receive
  <2> QED
    BY <1>2, <1>4, <2>1 DEF LoopOnly, Same
<1>17. CASE HandleStartRalph
  <2>1. Receive("ralph") /\ UNCHANGED cli /\ mailbox' \in Seq(Order)
    BY <1>17, ReceiveEffect DEF HandleStartRalph, Receive
  <2>2. CASE eng' = eng /\ stdin' = stdin
    BY <1>2, <1>4, <2>1, <2>2 DEF SameTickets
  <2>3. CASE \E m \in EngineType : m.out = <<>> /\ Same(eng, m) /\ Moved(m)
    BY <1>2, <1>3, <2>1, <2>3 DEF Same
  <2> QED
    BY <1>17, <2>2, <2>3, HandleStartRalphEffect
<1>18. CASE HardTimeout
  BY <1>1, <1>4, <1>18, HardTimeoutEffect DEF HardTimeout, Tick
<1>19. CASE QuarantineKill
  <2>1. UNCHANGED mailbox /\ cli'.taken = cli.taken
    BY <1>19 DEF QuarantineKill, Tick, TypeInv, CliShape, CliType
  <2> QED
    BY <1>19, <2>1, QuarantineKillEffect, GivesUpTickets
<1>20. CASE RetryRalph
  <2>1. UNCHANGED <<mailbox, cli>> /\ mailbox' \in Seq(Order)
    BY <1>20 DEF RetryRalph, Tick, TypeInv
  <2> QED
    BY <1>1, <1>3, <1>20, <2>1, RetryRalphEffect, EngineFacts DEF SameTickets
<1>21. CASE HandleEof
  BY <1>21, HandleEofEffect, GivesUpTickets DEF HandleEof
<1>22. CASE Cleanup
  BY <1>22, CleanupTickets
<1> QED
  BY <1>5, <1>6, <1>8, <1>9, <1>10, <1>11, <1>13, <1>14, <1>15, <1>16, <1>17, <1>18, <1>19,
     <1>20, <1>21, <1>22 DEF ActorNext

\* The CLI takes what was written; it writes nothing to its own stdin.
LEMMA CliTickets ==
    ASSUME TypeInv, TicketInv, CliNext
    PROVE  TicketInv'
<1>1. UNCHANGED <<eng, mailbox>>
  BY DEF CliNext, CliStep, CliTakesTurn, CliTakesAnswer, CliTakesInterrupt, CliPrompts,
         CliWithdrawsPrompt, CliFinishes, CliExits
<1>2. cli \in CliType /\ cli.taken \in Seq(Tickets) /\ stdin \in Seq(Line)
  BY DEF TypeInv, CliShape, CliType
<1>3. ASSUME NEW t \in Tickets
      PROVE  Written(t)' => Written(t)
  <2>1. ASSUME NEW k, CliReads(k)
        PROVE  /\ Contains(stdin', Msg("user", t)) => Contains(stdin, Msg("user", t))
               /\ Contains(stdin, Head(stdin))
    <3>1. stdin # <<>> /\ stdin' = Tail(stdin)
      BY <2>1, CliReadsEffect
    <3> QED
      BY <1>2, <3>1, ContainsOfTail
  <2>2. CASE CliTakesTurn
    <3>1. PICK u \in Turns :
            /\ Head(stdin) = Msg("user", u)
            /\ cli' = [cli EXCEPT !.turn = u,
                                  !.taken = IF u = Ralph THEN @ ELSE Append(@, u)]
      BY <2>2, CliTakesTurnEffect
    <3>2. CliReads("user")
      BY <2>2 DEF CliTakesTurn
    <3>3. cli'.taken = IF u = Ralph THEN cli.taken ELSE Append(cli.taken, u)
      BY <1>2, <3>1 DEF CliType
    <3>4. Contains(stdin, Msg("user", u))
      BY <2>1, <3>1, <3>2
    <3>5. u # Ralph => u \in Tickets
      BY DEF Turns
    <3>6. Contains(cli'.taken, t) => Contains(cli.taken, t) \/ t = u
      BY <1>2, <3>3, <3>5, ContainsOfAppend
    <3> QED
      BY <2>1, <3>2, <3>4, <3>6 DEF Written
  <2>3. CASE CliTakesAnswer
    <3>1. CliReads("answer") /\ cli'.taken = cli.taken
      BY <1>2, <2>3 DEF CliTakesAnswer, CliType
    <3> QED
      BY <2>1, <3>1 DEF Written
  <2>4. CASE CliTakesInterrupt
    <3>1. CliReads("interrupt") /\ cli'.taken = cli.taken
      BY <1>2, <2>4 DEF CliTakesInterrupt, CliType
    <3> QED
      BY <2>1, <3>1 DEF Written
  <2>5. CASE UNCHANGED stdin /\ cli'.taken = cli.taken
    BY <2>5 DEF Written
  <2>6. CASE \E p \in Prompts : CliPrompts(p) \/ CliWithdrawsPrompt(p)
    BY <1>2, <2>5, <2>6 DEF CliPrompts, CliWithdrawsPrompt, CliType
  <2>7. CASE \E bad, promise \in BOOLEAN : CliFinishes(bad, promise)
    BY <1>2, <2>5, <2>7 DEF CliFinishes, CliType
  <2>8. CASE \E code \in {"zero", "other"} : CliExits(code)
    <3>1. stdin' = <<>> /\ cli'.taken = cli.taken
      BY <1>2, <2>8 DEF CliExits, CliType
    <3>2. ~Contains(stdin', Msg("user", t))
      BY <3>1 DEF Contains
    <3> QED
      BY <3>1, <3>2 DEF Written
  <2> QED
    BY <2>2, <2>3, <2>4, <2>6, <2>7, <2>8 DEF CliNext
<1>4. SameTickets(eng, eng')
  BY <1>1 DEF SameTickets
<1> QED
  BY <1>1, <1>3, <1>4, QuietTickets

LEMMA TicketsInvariant == Spec => []TicketInv
<1>1. TicketInv /\ UNCHANGED vars => TicketInv'
  BY DEF vars, TicketInv, Placed, Waiting, Written
<1>2. TypeInv /\ TicketInv /\ [Next]_vars => TicketInv'
  BY <1>1, CallerTickets, ActorTickets, CliTickets DEF Next
<1> QED
  BY <1>2, InitTickets, TypesInvariant, PTL DEF Spec

\* HC #12: who waits for a reply has his ticket in exactly one place, and who does
\* not has it nowhere; once the actor is gone nobody waits.
THEOREM NoTicketIsLost == Spec => []NoTicketLost
<1>1. TicketInv => NoTicketLost
  <2> SUFFICES ASSUME TicketInv, NEW t \in Tickets
               PROVE  Cardinality({i \in DOMAIN mailbox : mailbox[i] = Cmd("send", t)})
                        + Cardinality({i \in DOMAIN eng.queue : eng.queue[i] = t})
                        = IF eng.reply[t] = "waiting" THEN 1 ELSE 0
    BY DEF NoTicketLost
  <2>1. {i \in DOMAIN mailbox : mailbox[i] = Cmd("send", t)} = Places(mailbox, {Cmd("send", t)})
    BY DEF Places
  <2>2. {i \in DOMAIN eng.queue : eng.queue[i] = t} = Places(eng.queue, {t})
    BY DEF Places
  <2>3. Placed(eng, mailbox, t)
    BY DEF TicketInv
  <2> QED
    BY <2>1, <2>2, <2>3 DEF Placed, Waiting, Hits, One
<1> QED
  BY <1>1, TicketsInvariant, PTL

\* A caller that was told Err may send the message again: the CLI never took it and
\* never will.
THEOREM ErrIsNotRun == Spec => []ErrNotRun
<1>1. TicketInv => ErrNotRun
  BY DEF TicketInv, ErrNotRun, Written
<1> QED
  BY <1>1, TicketsInvariant, PTL

-----------------------------------------------------------------------------
(* Prompts.  A request of the CLI is in one place: its line waits in stdout, *)
(* it is pending, or it was answered; a request the CLI still has open and   *)
(* nobody can see any more is one whose answer is on the way.               *)

LEMMA ContainsOfConcat ==
    ASSUME NEW T, NEW s \in Seq(T), NEW u \in Seq(T), NEW x
    PROVE  Contains(s \o u, x) <=> Contains(s, x) \/ \E i \in 1 .. Len(u) : u[i] = x
<1> DEFINE t == s \o u
           n == Len(s)
           k == Len(u)
<1>1. /\ n \in Nat /\ k \in Nat /\ Len(t) = n + k
      /\ \A i \in 1 .. n : t[i] = s[i]
      /\ \A i \in 1 .. k : t[n + i] = u[i]
  BY ConcatProperties
<1> HIDE DEF t, n, k
<1>2. (\E i \in 1 .. Len(t) : t[i] = x) <=>
          (\E i \in 1 .. n : s[i] = x) \/ \E i \in 1 .. k : u[i] = x
  <2>1. ASSUME NEW i \in 1 .. n + k, t[i] = x, i \notin 1 .. n
        PROVE  \E j \in 1 .. k : u[j] = x
    <3>1. i - n \in 1 .. k /\ n + (i - n) = i
      BY <1>1, <2>1
    <3> QED
      BY <1>1, <2>1, <3>1
  <2>2. \A i \in 1 .. n : i \in 1 .. n + k
    BY <1>1
  <2>3. \A i \in 1 .. k : n + i \in 1 .. n + k
    BY <1>1
  <2> QED
    BY <1>1, <2>1, <2>2, <2>3
<1> QED
  BY <1>2 DEF Contains, t, n, k

\* The request of p is still to be read, so many times.
Asked(p) == Hits(stdout, {Msg("prompt", p)})
OnTheWay(p) == Contains(stdin, Msg("answer", p))
WithdrawnIn(s, p) == Contains(s, Msg("withdraw", p))

Once(p) == Asked(p) + One(p \in eng.pending) + eng.answers[p] <= One(p \in cli.used)

Reachable(p) ==
    actor = "running" /\ cli.alive /\ p \in cli.open =>
        \/ Asked(p) # 0
        \/ p \in eng.pending /\ p \in cards
        \/ OnTheWay(p)

PromptInv ==
    \A p \in Prompts :
        /\ Once(p) /\ Reachable(p)
        /\ WithdrawnIn(stdout, p) => p \in cli.used /\ p \notin cli.open

LEMMA PromptFacts ==
    ASSUME TypeInv, NEW p \in Prompts
    PROVE  /\ Asked(p) \in Nat /\ eng.answers[p] \in Nat /\ eng.pending \subseteq Prompts
           /\ stdin \in Seq(Line) /\ stdout \in Seq(Report) /\ eng \in EngineType
           /\ Msg("answer", p) \in Line
           /\ Msg("prompt", p) \in Report /\ Msg("withdraw", p) \in Report
<1>1. eng \in EngineType /\ stdin \in Seq(Line) /\ stdout \in Seq(Report)
  BY EngineFacts, PipeFacts
<1>2. Msg("answer", p) \in Line
  BY DEF Line
<1>3. Msg("prompt", p) \in Report /\ Msg("withdraw", p) \in Report
  BY DEF Report
<1>4. Asked(p) \in Nat
  BY <1>1, PlacesFinite DEF Asked
<1>5. eng.answers[p] \in Nat /\ eng.pending \subseteq Prompts
  BY <1>1 DEF EngineType
<1> QED
  BY <1>1, <1>2, <1>3, <1>4, <1>5

\* Nothing that was written is taken back.
LEMMA StillOnTheWay ==
    ASSUME TypeInv, NEW p \in Prompts,
           \/ stdin' = stdin
           \/ \E l \in Line : stdin' = Append(stdin, l)
    PROVE  OnTheWay(p) => OnTheWay(p)'
<1>1. CASE stdin' = stdin
  BY <1>1 DEF OnTheWay
<1>2. ASSUME NEW l \in Line, stdin' = Append(stdin, l)
      PROVE  OnTheWay(p) => OnTheWay(p)'
  <2>1. Contains(stdin', Msg("answer", p)) <=>
            Contains(stdin, Msg("answer", p)) \/ Msg("answer", p) = l
    BY <1>2, PromptFacts, ContainsOfAppend
  <2> QED
    BY <2>1 DEF OnTheWay
<1> QED
  BY <1>1, <1>2

\* An answer that was written is on the way, and holds no other one back.
LEMMA AnswerOnTheWay ==
    ASSUME TypeInv, NEW q \in Prompts, NEW p \in Prompts, Answered(q), cli.alive
    PROVE  OnTheWay(q)' /\ (OnTheWay(p) => OnTheWay(p)')
<1> DEFINE l == Msg("answer", q)
<1>1. stdin' = Append(stdin, l)
  BY DEF Answered
<1>2. stdin \in Seq(Line) /\ l \in Line
  BY PromptFacts
<1>3. OnTheWay(q)' <=> Contains(stdin', l)
  BY DEF OnTheWay
<1> HIDE DEF l
<1>4. Contains(Append(stdin, l), l)
  BY <1>2, ContainsOfAppend
<1> QED
  BY <1>1, <1>2, <1>3, <1>4, StillOnTheWay

\* What a read takes from stdout.
LEMMA ReadTakes ==
    ASSUME TypeInv, NEW k, ReadStdout(k), NEW p \in Prompts
    PROVE  /\ Asked(p)' \in Nat
           /\ Asked(p) = Asked(p)' + (IF Head(stdout) = Msg("prompt", p) THEN 1 ELSE 0)
           /\ WithdrawnIn(stdout, p) <=>
                  WithdrawnIn(stdout', p) \/ Head(stdout) = Msg("withdraw", p)
<1>1. stdout # <<>> /\ stdout' = Tail(stdout) /\ stdout' \in Seq(Report) /\ stdout \in Seq(Report)
  BY ReadStdoutEffect, PipeFacts
<1>2. Hits(stdout, {Msg("prompt", p)}) = Hits(Tail(stdout), {Msg("prompt", p)})
          + (IF Head(stdout) \in {Msg("prompt", p)} THEN 1 ELSE 0)
  BY <1>1, HitsOfTail
<1>3. Contains(stdout, Msg("withdraw", p)) <=>
          Contains(Tail(stdout), Msg("withdraw", p)) \/ Head(stdout) = Msg("withdraw", p)
  BY <1>1, ContainsOfTail
<1>4. Hits(stdout', {Msg("prompt", p)}) \in Nat
  BY <1>1, PlacesFinite
<1>5. Asked(p) = Asked(p)' + (IF Head(stdout) = Msg("prompt", p) THEN 1 ELSE 0)
  BY <1>1, <1>2 DEF Asked
<1>6. WithdrawnIn(stdout, p) <=>
          WithdrawnIn(stdout', p) \/ Head(stdout) = Msg("withdraw", p)
  BY <1>1, <1>3 DEF WithdrawnIn
<1> QED
  BY <1>4, <1>5, <1>6 DEF Asked

LEMMA OtherRead ==
    ASSUME TypeInv, NEW k, k \notin {"prompt", "withdraw"}, ReadStdout(k), NEW p \in Prompts
    PROVE  Asked(p)' = Asked(p) /\ (WithdrawnIn(stdout', p) => WithdrawnIn(stdout, p))
<1>1. Head(stdout) # Msg("prompt", p) /\ Head(stdout) # Msg("withdraw", p)
  BY DEF ReadStdout, Msg
<1> QED
  BY <1>1, ReadTakes, PromptFacts

\* The reports of a turn's end ask for nothing, and withdraw only what is open.
LEMMA EndWithdraws ==
    ASSUME TypeInv, NEW lines, Ends(lines), NEW p \in Prompts
    PROVE  /\ Asked(p)' = Asked(p)
           /\ WithdrawnIn(stdout', p) => WithdrawnIn(stdout, p) \/ p \in cli.open
<1>1. PICK r \in Report : r.k = "result" /\ stdout' = Append(stdout \o lines, r)
  BY DEF Ends
<1>2. /\ lines \in Seq(Report) /\ stdout \in Seq(Report)
      /\ \A i \in 1 .. Len(lines) : lines[i].k # "prompt"
      /\ \A i \in 1 .. Len(lines) : lines[i] = Msg("withdraw", p) => p \in cli.open
  BY PipeFacts DEF Ends
<1>3. \A i \in 1 .. Len(lines) : lines[i] \notin {Msg("prompt", p)}
  BY <1>2 DEF Msg
<1>4. r \notin {Msg("prompt", p)} /\ r # Msg("withdraw", p)
  BY <1>1 DEF Msg
<1> DEFINE s == stdout \o lines
<1>5. s \in Seq(Report)
  BY <1>2, ConcatProperties
<1>6. Hits(s, {Msg("prompt", p)}) = Hits(stdout, {Msg("prompt", p)})
  BY <1>2, <1>3, HitsOfConcat
<1>7. Contains(s, Msg("withdraw", p)) => Contains(stdout, Msg("withdraw", p)) \/ p \in cli.open
  BY <1>2, ContainsOfConcat
<1> HIDE DEF s
<1>8. Hits(Append(s, r), {Msg("prompt", p)}) = Hits(s, {Msg("prompt", p)}) + 0
  BY <1>4, <1>5, HitsOfAppend
<1>9. Contains(Append(s, r), Msg("withdraw", p)) <=> Contains(s, Msg("withdraw", p))
  BY <1>4, <1>5, ContainsOfAppend
<1>10. stdout' = Append(s, r)
  BY <1>1 DEF s
<1>11. Asked(p)' = Asked(p)
  BY <1>6, <1>8, <1>10, PromptFacts DEF Asked
<1> QED
  BY <1>7, <1>9, <1>10, <1>11 DEF WithdrawnIn

\* A report of another kind appended to stdout.
LEMMA ReportAdds ==
    ASSUME TypeInv, NEW r \in Report, stdout' = Append(stdout, r), NEW p \in Prompts
    PROVE  /\ Asked(p)' = Asked(p) + (IF r = Msg("prompt", p) THEN 1 ELSE 0)
           /\ WithdrawnIn(stdout', p) <=> WithdrawnIn(stdout, p) \/ r = Msg("withdraw", p)
<1>1. Hits(Append(stdout, r), {Msg("prompt", p)}) = Hits(stdout, {Msg("prompt", p)})
          + (IF r \in {Msg("prompt", p)} THEN 1 ELSE 0)
  BY PromptFacts, HitsOfAppend
<1>2. Contains(Append(stdout, r), Msg("withdraw", p)) <=>
          Contains(stdout, Msg("withdraw", p)) \/ Msg("withdraw", p) = r
  BY PromptFacts, ContainsOfAppend
<1> QED
  BY <1>1, <1>2 DEF Asked, WithdrawnIn

\* A step that touches no prompt.
LEMMA QuietPrompts ==
    ASSUME TypeInv, PromptInv, SamePrompts(eng, eng'), UNCHANGED cards,
           cli'.open = cli.open, cli'.used = cli.used, cli'.alive => cli.alive,
           actor' = "running" => actor = "running",
           \A p \in Prompts : Asked(p)' = Asked(p),
           \A p \in Prompts : WithdrawnIn(stdout', p) => WithdrawnIn(stdout, p),
           \A p \in Prompts : OnTheWay(p) => OnTheWay(p)'
    PROVE  PromptInv'
<1> SUFFICES ASSUME NEW p \in Prompts
             PROVE  /\ Once(p)' /\ Reachable(p)'
                    /\ WithdrawnIn(stdout', p) => p \in cli'.used /\ p \notin cli'.open
  BY DEF PromptInv
<1>1. /\ Once(p) /\ Reachable(p)
      /\ WithdrawnIn(stdout, p) => p \in cli.used /\ p \notin cli.open
  BY DEF PromptInv
<1>2. eng'.pending = eng.pending /\ eng'.answers = eng.answers
  BY DEF SamePrompts
<1>3. Once(p)'
  BY <1>1, <1>2 DEF Once
<1>4. Reachable(p)'
  BY <1>1, <1>2 DEF Reachable
<1> QED
  BY <1>1, <1>3, <1>4

LEMMA InitPrompts == Init => PromptInv
<1> SUFFICES ASSUME Init, NEW p \in Prompts
             PROVE  /\ Once(p) /\ Reachable(p)
                    /\ WithdrawnIn(stdout, p) => p \in cli.used /\ p \notin cli.open
  BY DEF PromptInv
<1>1. eng.pending = {} /\ eng.answers = [q \in Prompts |-> 0] /\ stdout = <<>>
      /\ cli.open = {} /\ cli.used = {}
  <2>1. PICK status \in {"running", "idle"} :
          eng = [active |-> NoTurn, quarantine |-> FALSE, interruptSent |-> FALSE,
                 queue |-> <<>>, loop |-> NoLoop, pendingInterrupt |-> FALSE,
                 pending |-> {}, remembered |-> FALSE, state |-> "", gotError |-> FALSE,
                 status |-> status, metaError |-> FALSE,
                 reply |-> [t \in Tickets |-> "none"],
                 answers |-> [q \in Prompts |-> 0], interrupted |-> FALSE,
                 outcome |-> "none", out |-> <<>>]
    BY DEF Init
  <2>2. stdout = <<>> /\ cli.open = {} /\ cli.used = {}
    BY DEF Init
  <2> QED
    BY <2>1, <2>2
<1>2. Asked(p) = 0 /\ ~WithdrawnIn(stdout, p)
  BY <1>1, HitsOfEmpty DEF Asked, WithdrawnIn, Contains
<1>3. p \notin eng.pending /\ eng.answers[p] = 0 /\ p \notin cli.used /\ p \notin cli.open
  BY <1>1
<1>4. Once(p)
  BY <1>2, <1>3 DEF Once, One
<1> QED
  BY <1>2, <1>3, <1>4 DEF Reachable

LEMMA CallerPrompts ==
    ASSUME TypeInv, PromptInv, CallerNext
    PROVE  PromptInv'
<1>1. UNCHANGED <<stdin, stdout, cli, cards, actor>>
  BY DEF CallerNext, SendMessage, Interrupt, StopSession, Respond, StartRalphLoop,
         CancelRalphLoop, AppExit, Post
<1>2. SamePrompts(eng, eng')
  <2>1. CASE \E t \in Tickets : SendMessage(t)
    BY <2>1, SendMessageEffect
  <2>2. CASE UNCHANGED eng
    BY <2>2 DEF SamePrompts
  <2> QED
    BY <2>1, <2>2 DEF CallerNext, Interrupt, StopSession, Respond, StartRalphLoop,
                      CancelRalphLoop, AppExit
<1>3. \A p \in Prompts :
         Asked(p)' = Asked(p) /\ WithdrawnIn(stdout', p) = WithdrawnIn(stdout, p)
           /\ OnTheWay(p)' = OnTheWay(p)
  BY <1>1 DEF Asked, WithdrawnIn, OnTheWay
<1> QED
  BY <1>1, <1>2, <1>3, QuietPrompts

\* The response takes the request out of the pending ones before it is written.
LEMMA ResponsePrompts ==
    ASSUME TypeInv, PromptInv, HandleResponse
    PROVE  PromptInv'
<1>1. PICK q \in Prompts :
        /\ Aside
        /\ \/ /\ q \in eng.pending /\ eng'.pending = eng.pending \ {q} /\ Answered(q)
              /\ cards' = cards \ {q}
           \/ q \notin eng.pending /\ eng' = eng /\ stdin' = stdin /\ cards' = cards
  BY HandleResponseEffect
<1>2. UNCHANGED <<stdout, cli, actor>>
  BY DEF HandleResponse, Receive
<1>3. \A p \in Prompts : Asked(p)' = Asked(p) /\ (WithdrawnIn(stdout', p) => WithdrawnIn(stdout, p))
  BY <1>2 DEF Asked, WithdrawnIn
<1>4. CASE eng' = eng /\ stdin' = stdin /\ cards' = cards
  <2>1. SamePrompts(eng, eng') /\ \A p \in Prompts : OnTheWay(p) => OnTheWay(p)'
    BY <1>4 DEF SamePrompts, OnTheWay
  <2> QED
    BY <1>2, <1>3, <1>4, <2>1, QuietPrompts
<1>5. CASE /\ q \in eng.pending /\ eng'.pending = eng.pending \ {q} /\ Answered(q)
           /\ cards' = cards \ {q}
  <2> SUFFICES ASSUME NEW p \in Prompts
               PROVE  /\ Once(p)' /\ Reachable(p)'
                      /\ WithdrawnIn(stdout', p) => p \in cli'.used /\ p \notin cli'.open
    BY DEF PromptInv
  <2>1. /\ Once(p) /\ Reachable(p)
        /\ WithdrawnIn(stdout, p) => p \in cli.used /\ p \notin cli.open
    BY DEF PromptInv
  <2>2. eng.answers \in [Prompts -> Nat] /\ Asked(p) \in Nat
    BY PromptFacts DEF EngineType
  <2>3. eng'.answers \in {eng.answers, [eng.answers EXCEPT ![q] = @ + 1]}
    BY <1>5 DEF Answered
  <2>4. eng'.answers[p] = eng.answers[p] \/ (p = q /\ eng'.answers[p] = eng.answers[p] + 1)
    BY <2>2, <2>3
  <2>5. p \in eng'.pending <=> p \in eng.pending /\ p # q
    BY <1>5
  <2>6. eng.answers[p] \in Nat
    BY <2>2
  <2>7. Once(p)'
    BY <1>2, <1>3, <1>5, <2>1, <2>2, <2>4, <2>5, <2>6 DEF Once, One
  <2>8. cli.alive => OnTheWay(q)' /\ (OnTheWay(p) => OnTheWay(p)')
    BY <1>5, AnswerOnTheWay
  <2>9. Reachable(p)'
    BY <1>2, <1>3, <1>5, <2>1, <2>5, <2>8 DEF Reachable
  <2> QED
    BY <1>2, <1>3, <2>1, <2>7, <2>9
<1> QED
  BY <1>1, <1>4, <1>5

\* A request that is read becomes pending with a card, or is answered at once.
LEMMA RequestPrompts ==
    ASSUME TypeInv, PromptInv, ReadPrompt
    PROVE  PromptInv'
<1>1. PICK q \in Prompts :
        /\ Head(stdout) = Msg("prompt", q) /\ Aside
        /\ \/ eng'.pending = eng.pending /\ Answered(q) /\ cards' = cards
           \/ /\ eng'.pending = eng.pending \cup {q} /\ eng'.answers = eng.answers
              /\ stdin' = stdin /\ cards' = cards \cup {q}
  BY ReadPromptEffect
<1>2. ReadStdout("prompt") /\ UNCHANGED <<cli, actor>>
  BY DEF ReadPrompt, ReadStdout
<1> SUFFICES ASSUME NEW p \in Prompts
             PROVE  /\ Once(p)' /\ Reachable(p)'
                    /\ WithdrawnIn(stdout', p) => p \in cli'.used /\ p \notin cli'.open
  BY DEF PromptInv
<1>3. /\ Once(p) /\ Reachable(p)
      /\ WithdrawnIn(stdout, p) => p \in cli.used /\ p \notin cli.open
  BY DEF PromptInv
<1>4. /\ Asked(p)' \in Nat
      /\ Asked(p) = Asked(p)' + (IF Head(stdout) = Msg("prompt", p) THEN 1 ELSE 0)
      /\ WithdrawnIn(stdout', p) => WithdrawnIn(stdout, p)
  BY <1>2, ReadTakes
<1>5. Head(stdout) = Msg("prompt", p) <=> p = q
  BY <1>1 DEF Msg
<1>6. Asked(p) = Asked(p)' + (IF p = q THEN 1 ELSE 0)
  BY <1>4, <1>5
<1>7. eng.answers \in [Prompts -> Nat] /\ eng.answers[p] \in Nat
  BY PromptFacts DEF EngineType
<1>8. CASE eng'.pending = eng.pending /\ Answered(q) /\ cards' = cards
  <2>1. eng'.answers \in {eng.answers, [eng.answers EXCEPT ![q] = @ + 1]}
    BY <1>8 DEF Answered
  <2>2. eng'.answers[p] = eng.answers[p] \/ (p = q /\ eng'.answers[p] = eng.answers[p] + 1)
    BY <1>7, <2>1
  <2>3. Once(p)'
    BY <1>2, <1>3, <1>4, <1>6, <1>7, <1>8, <2>2 DEF Once, One
  <2>4. cli.alive => OnTheWay(q)' /\ (OnTheWay(p) => OnTheWay(p)')
    BY <1>8, AnswerOnTheWay
  <2>5. Reachable(p)'
    BY <1>2, <1>3, <1>4, <1>6, <1>8, <2>4 DEF Reachable
  <2> QED
    BY <1>2, <1>3, <1>4, <2>3, <2>5
<1>9. CASE /\ eng'.pending = eng.pending \cup {q} /\ eng'.answers = eng.answers
           /\ stdin' = stdin /\ cards' = cards \cup {q}
  <2>1. Once(p)'
    BY <1>2, <1>3, <1>4, <1>6, <1>7, <1>9 DEF Once, One
  <2>2. OnTheWay(p)' <=> OnTheWay(p)
    BY <1>9 DEF OnTheWay
  <2>3. Reachable(p)'
    BY <1>2, <1>3, <1>4, <1>6, <1>9, <2>2 DEF Reachable
  <2> QED
    BY <1>2, <1>3, <1>4, <2>1, <2>3
<1> QED
  BY <1>1, <1>8, <1>9

\* The card of a request goes only when the CLI does not wait for it any more.
LEMMA WithdrawPrompts ==
    ASSUME TypeInv, PromptInv, ReadWithdraw
    PROVE  PromptInv'
<1>1. /\ ReadStdout("withdraw") /\ UNCHANGED <<eng, stdin, cli, actor>>
      /\ cards' = cards \/ cards' = cards \ {Head(stdout).of}
  BY DEF ReadWithdraw, ReadStdout
<1>2. PICK q \in Prompts : Head(stdout) = Msg("withdraw", q)
  BY <1>1, ReadStdoutEffect, ReportKinds
<1>3. Head(stdout).of = q
  BY <1>2 DEF Msg
<1> SUFFICES ASSUME NEW p \in Prompts
             PROVE  /\ Once(p)' /\ Reachable(p)'
                    /\ WithdrawnIn(stdout', p) => p \in cli'.used /\ p \notin cli'.open
  BY DEF PromptInv
<1>4. /\ Once(p) /\ Reachable(p)
      /\ WithdrawnIn(stdout, p) => p \in cli.used /\ p \notin cli.open
  BY DEF PromptInv
<1>5. /\ Asked(p)' = Asked(p)
      /\ WithdrawnIn(stdout', p) => WithdrawnIn(stdout, p)
      /\ p = q => WithdrawnIn(stdout, p)
  <2>1. Head(stdout) # Msg("prompt", p)
    BY <1>2 DEF Msg
  <2> QED
    BY <1>1, <1>2, <2>1, ReadTakes, PromptFacts
<1>6. Once(p)' /\ OnTheWay(p)' = OnTheWay(p)
  BY <1>1, <1>4, <1>5 DEF Once, OnTheWay
<1>7. p # q => (p \in cards => p \in cards')
  BY <1>1, <1>3
<1>8. Reachable(p)'
  BY <1>1, <1>4, <1>5, <1>6, <1>7 DEF Reachable
<1> QED
  BY <1>1, <1>4, <1>5, <1>6, <1>8

LEMMA ActorPrompts ==
    ASSUME TypeInv, PromptInv, ActorNext
    PROVE  PromptInv'
<1>1. ASSUME SamePrompts(eng, eng'), UNCHANGED cards,
             cli'.open = cli.open, cli'.used = cli.used, cli'.alive => cli.alive,
             actor' = "running" => actor = "running",
             stdout' = stdout \/ \E k : k \notin {"prompt", "withdraw"} /\ ReadStdout(k),
             stdin' = stdin \/ \E l \in Line : stdin' = Append(stdin, l)
      PROVE  PromptInv'
  <2>1. ASSUME NEW p \in Prompts
        PROVE  /\ Asked(p)' = Asked(p) /\ (WithdrawnIn(stdout', p) => WithdrawnIn(stdout, p))
               /\ OnTheWay(p) => OnTheWay(p)'
    <3>1. CASE stdout' = stdout
      BY <1>1, <3>1, StillOnTheWay DEF Asked, WithdrawnIn
    <3>2. CASE \E k : k \notin {"prompt", "withdraw"} /\ ReadStdout(k)
      BY <1>1, <3>2, StillOnTheWay, OtherRead
    <3> QED
      BY <1>1, <3>1, <3>2
  <2> QED
    BY <1>1, <2>1, QuietPrompts
<1>2. ASSUME NEW m, Moved(m), SamePrompts(eng, m), UNCHANGED <<cards, cli, actor>>,
             stdout' = stdout \/ \E k : k \notin {"prompt", "withdraw"} /\ ReadStdout(k)
      PROVE  PromptInv'
  <2>1. SamePrompts(eng, eng')
    BY <1>2 DEF Moved, Untouched, SamePrompts
  <2>2. stdin' = stdin \/ \E l \in Line : stdin' = Append(stdin, l)
    BY <1>2 DEF Moved, Line
  <2> QED
    BY <1>1, <1>2, <2>1, <2>2
<1>3. ASSUME Interrupts
      PROVE  /\ SamePrompts(eng, eng')
             /\ stdin' = stdin \/ \E l \in Line : stdin' = Append(stdin, l)
  BY <1>3 DEF Interrupts, Same, Wrote, Line
<1>4. ASSUME NEW expired \in BOOLEAN, HandleSendMessage(expired)
      PROVE  PromptInv'
  <2>1. PICK t \in Tickets, m \in EngineType : Queued(m, t) /\ Moved(m)
    BY <1>4, HandleSendMessageEffect
  <2>2. SamePrompts(eng, m) /\ UNCHANGED <<stdout, cards, cli, actor>>
    BY <1>4, <2>1 DEF Queued, HandleSendMessage, Receive
  <2> QED
    BY <1>2, <2>1, <2>2
<1>5. ASSUME NEW expired \in BOOLEAN, ReadResult(expired)
      PROVE  PromptInv'
  <2>1. PICK m : /\ TurnOver(eng, m)
                 /\ IF eng.active = NoTurn /\ ~eng.quarantine
                    THEN eng' = m /\ stdin' = stdin ELSE Moved(m)
    BY <1>5, ReadResultEffect
  <2>2. ReadStdout("result") /\ UNCHANGED <<cards, cli, actor>> /\ SamePrompts(eng, m)
    BY <1>5, <2>1 DEF ReadResult, ReadStdout, TurnOver
  <2>3. CASE Moved(m)
    BY <1>2, <2>2, <2>3
  <2>4. CASE eng' = m /\ stdin' = stdin
    BY <1>1, <2>2, <2>4
  <2> QED
    BY <2>1, <2>3, <2>4
<1>6. CASE HandleInterrupt
  <2>1. UNCHANGED <<stdout, cards, cli, actor>>
    BY <1>6 DEF HandleInterrupt, Receive
  <2> QED
    BY <1>1, <1>3, <1>6, <2>1, HandleInterruptEffect
<1>7. CASE QuarantineInterrupt
  <2>1. UNCHANGED <<stdout, cards, cli, actor>>
    BY <1>7 DEF QuarantineInterrupt, Tick
  <2> QED
    BY <1>1, <1>3, <1>7, <2>1, QuarantineInterruptEffect
<1>8. CASE HandleStop \/ HandleCancelled
  BY <1>1, <1>8 DEF HandleStop, HandleCancelled, Receive, SamePrompts
<1>9. CASE ReadPromise
  <2>1. ReadStdout("promise") /\ UNCHANGED <<eng, stdin, cards, cli, actor>>
    BY <1>9, ReadPromiseEffect DEF ReadPromise, ReadStdout
  <2> QED
    BY <1>1, <2>1 DEF SamePrompts
<1>10. CASE HandleCancelRalph
  <2>1. LoopOnly /\ UNCHANGED <<stdout, cards, cli, actor>>
    BY <1>10, HandleCancelRalphEffect DEF HandleCancelRalph, Receive
  <2> QED
    BY <1>1, <2>1 DEF LoopOnly, Same
<1>11. CASE HandleStartRalph
  <2>1. UNCHANGED <<stdout, cards, cli, actor>>
    BY <1>11 DEF HandleStartRalph, Receive
  <2>2. CASE eng' = eng /\ stdin' = stdin
    BY <1>1, <2>1, <2>2 DEF SamePrompts
  <2>3. CASE \E m \in EngineType : m.out = <<>> /\ Same(eng, m) /\ Moved(m)
    BY <1>2, <2>1, <2>3 DEF Same
  <2> QED
    BY <1>11, <2>2, <2>3, HandleStartRalphEffect
<1>12. CASE HardTimeout
  BY <1>1, <1>12, HardTimeoutEffect DEF HardTimeout, Tick
<1>13. ASSUME GivesUp, UNCHANGED <<stdout, cards>>,
              cli'.open = cli.open, cli'.used = cli.used, cli'.alive => cli.alive
       PROVE  PromptInv'
  BY <1>1, <1>13 DEF GivesUp
<1>14. CASE QuarantineKill
  <2>1. /\ UNCHANGED <<stdout, cards>> /\ cli'.open = cli.open /\ cli'.used = cli.used
        /\ cli'.alive => cli.alive
    BY <1>14, QuarantineKillEffect DEF QuarantineKill, Tick, TypeInv, CliShape, CliType
  <2> QED
    BY <1>13, <1>14, <2>1, QuarantineKillEffect
<1>15. CASE RetryRalph
  <2>1. UNCHANGED <<stdout, cards, cli, actor>>
    BY <1>15 DEF RetryRalph, Tick
  <2> QED
    BY <1>2, <1>15, <2>1, RetryRalphEffect DEF SamePrompts
<1>16. CASE HandleEof
  <2>1. UNCHANGED <<stdout, cards, cli>>
    BY <1>16 DEF HandleEof
  <2> QED
    BY <1>13, <1>16, <2>1, HandleEofEffect
<1>17. CASE Cleanup
  BY <1>1, <1>17, CleanupEffect
<1> QED
  BY <1>4, <1>5, <1>6, <1>7, <1>8, <1>9, <1>10, <1>11, <1>12, <1>14, <1>15, <1>16, <1>17,
     ResponsePrompts, RequestPrompts, WithdrawPrompts DEF ActorNext

\* What the CLI reads from its stdin was there before; an answer it reads closes the
\* request.
LEMMA CliReadsPrompts ==
    ASSUME TypeInv, PromptInv, NEW k, CliReads(k), UNCHANGED <<actor, eng, stdout, cards>>,
           cli'.used = cli.used, cli'.alive => cli.alive, cli'.open \subseteq cli.open,
           \A p \in Prompts : Head(stdin) = Msg("answer", p) => p \notin cli'.open
    PROVE  PromptInv'
<1> SUFFICES ASSUME NEW p \in Prompts
             PROVE  /\ Once(p)' /\ Reachable(p)'
                    /\ WithdrawnIn(stdout', p) => p \in cli'.used /\ p \notin cli'.open
  BY DEF PromptInv
<1>1. /\ Once(p) /\ Reachable(p)
      /\ WithdrawnIn(stdout, p) => p \in cli.used /\ p \notin cli.open
  BY DEF PromptInv
<1>2. Asked(p)' = Asked(p)
  BY DEF Asked
<1>3. stdin # <<>> /\ stdin' = Tail(stdin)
  BY CliReadsEffect
<1>4. Contains(stdin, Msg("answer", p)) <=>
          Contains(Tail(stdin), Msg("answer", p)) \/ Head(stdin) = Msg("answer", p)
  BY <1>3, PromptFacts, ContainsOfTail
<1>5. OnTheWay(p) <=> OnTheWay(p)' \/ Head(stdin) = Msg("answer", p)
  BY <1>3, <1>4 DEF OnTheWay
<1>6. Once(p)'
  BY <1>1, <1>2 DEF Once
<1>7. Reachable(p)'
  BY <1>1, <1>2, <1>5 DEF Reachable
<1> QED
  BY <1>1, <1>6, <1>7

\* The turn's end closes every request, so that what it withdraws is withdrawn.
LEMMA EndPrompts ==
    ASSUME TypeInv, PromptInv, NEW lines, Ends(lines), UNCHANGED <<eng, cards>>,
           cli'.used = cli.used, cli'.open = {}
    PROVE  PromptInv'
<1> SUFFICES ASSUME NEW p \in Prompts
             PROVE  /\ Once(p)' /\ Reachable(p)'
                    /\ WithdrawnIn(stdout', p) => p \in cli'.used /\ p \notin cli'.open
  BY DEF PromptInv
<1>1. /\ Once(p)
      /\ WithdrawnIn(stdout, p) => p \in cli.used /\ p \notin cli.open
  BY DEF PromptInv
<1>2. /\ Asked(p)' = Asked(p)
      /\ WithdrawnIn(stdout', p) => WithdrawnIn(stdout, p) \/ p \in cli.open
  BY EndWithdraws
<1>3. cli.open \subseteq cli.used
  BY DEF TypeInv, CliShape
<1>4. Once(p)'
  BY <1>1, <1>2 DEF Once
<1>5. Reachable(p)'
  BY DEF Reachable
<1> QED
  BY <1>1, <1>2, <1>3, <1>4, <1>5

LEMMA CliKeepsPrompts ==
    ASSUME TypeInv, PromptInv, CliNext
    PROVE  PromptInv'
<1>1. /\ UNCHANGED <<actor, eng, mailbox, cards>> /\ cli.alive
      /\ cli \in CliType /\ cli.open \subseteq cli.used
  BY DEF CliNext, CliStep, CliTakesTurn, CliTakesAnswer, CliTakesInterrupt, CliPrompts,
         CliWithdrawsPrompt, CliFinishes, CliExits, TypeInv, CliShape
<1>2. CASE CliTakesTurn
  <2>1. CliReads("user") /\ UNCHANGED stdout /\ cli'.used = cli.used /\ cli'.open = cli.open
    BY <1>1, <1>2 DEF CliTakesTurn, CliType
  <2>2. \A p \in Prompts : Head(stdin) # Msg("answer", p)
    BY <2>1 DEF CliReads, Msg
  <2> QED
    BY <1>1, <2>1, <2>2, CliReadsPrompts
<1>3. CASE CliTakesAnswer
  <2>1. CliReads("answer") /\ UNCHANGED stdout
    BY <1>3 DEF CliTakesAnswer
  <2>2. PICK q \in Prompts :
          Head(stdin) = Msg("answer", q) /\ cli' = [cli EXCEPT !.open = @ \ {q}]
    BY <1>3, CliTakesAnswerEffect
  <2>3. cli'.used = cli.used /\ cli'.open = cli.open \ {q}
    BY <1>1, <2>2 DEF CliType
  <2>4. \A p \in Prompts : Head(stdin) = Msg("answer", p) => p \notin cli'.open
    BY <2>2, <2>3 DEF Msg
  <2> QED
    BY <1>1, <2>1, <2>3, <2>4, CliReadsPrompts
<1>4. CASE CliTakesInterrupt
  <2>1. CliReads("interrupt")
    BY <1>4 DEF CliTakesInterrupt
  <2>2. CASE cli.turn = NoTurn
    <3>1. UNCHANGED <<cli, stdout>>
      BY <1>4, <2>2, CliTakesInterruptEffect
    <3>2. \A p \in Prompts : Head(stdin) # Msg("answer", p)
      BY <2>1 DEF CliReads, Msg
    <3> QED
      BY <1>1, <2>1, <3>1, <3>2, CliReadsPrompts
  <2>3. CASE cli.turn # NoTurn
    <3>1. cli' = [cli EXCEPT !.turn = NoTurn, !.open = {}] /\ \E lines : Ends(lines)
      BY <1>4, <2>3, CliTakesInterruptEffect
    <3>2. cli'.used = cli.used /\ cli'.open = {}
      BY <1>1, <3>1 DEF CliType
    <3> QED
      BY <1>1, <3>1, <3>2, EndPrompts
  <2> QED
    BY <2>2, <2>3
<1>5. ASSUME NEW bad \in BOOLEAN, NEW promise \in BOOLEAN, CliFinishes(bad, promise)
      PROVE  PromptInv'
  <2>1. cli' = [cli EXCEPT !.turn = NoTurn] /\ (\E lines : Ends(lines)) /\ cli.open = {}
    BY <1>5, CliFinishesEffect DEF CliFinishes
  <2>2. cli'.used = cli.used /\ cli'.open = {}
    BY <1>1, <2>1 DEF CliType
  <2> QED
    BY <1>1, <2>1, <2>2, EndPrompts
<1>6. ASSUME NEW q \in Prompts, CliPrompts(q)
      PROVE  PromptInv'
  <2> SUFFICES ASSUME NEW p \in Prompts
               PROVE  /\ Once(p)' /\ Reachable(p)'
                      /\ WithdrawnIn(stdout', p) => p \in cli'.used /\ p \notin cli'.open
    BY DEF PromptInv
  <2>1. /\ Once(p) /\ Reachable(p)
        /\ WithdrawnIn(stdout, p) => p \in cli.used /\ p \notin cli.open
    BY DEF PromptInv
  <2>2. /\ q \notin cli.used /\ cli'.used = cli.used \cup {q} /\ cli'.open = cli.open \cup {q}
        /\ stdout' = Append(stdout, Msg("prompt", q)) /\ UNCHANGED stdin
    BY <1>1, <1>6 DEF CliPrompts, CliType
  <2>3. Msg("prompt", q) \in Report
    BY PromptFacts
  <2>4. /\ Asked(p)' = Asked(p) + (IF Msg("prompt", q) = Msg("prompt", p) THEN 1 ELSE 0)
        /\ WithdrawnIn(stdout', p) <=>
               WithdrawnIn(stdout, p) \/ Msg("prompt", q) = Msg("withdraw", p)
    BY <2>2, <2>3, ReportAdds
  <2>5. /\ Asked(p)' = Asked(p) + (IF p = q THEN 1 ELSE 0)
        /\ WithdrawnIn(stdout', p) = WithdrawnIn(stdout, p)
    <3>1. Msg("prompt", q) = Msg("prompt", p) <=> p = q
      BY DEF Msg
    <3>2. Msg("prompt", q) # Msg("withdraw", p)
      BY DEF Msg
    <3> QED
      BY <2>4, <3>1, <3>2 DEF WithdrawnIn, Contains
  <2>6. Asked(p) \in Nat /\ eng.answers[p] \in Nat /\ OnTheWay(p)' = OnTheWay(p)
    BY <2>2, PromptFacts DEF OnTheWay
  <2>7. Once(p)'
    BY <1>1, <2>1, <2>2, <2>5, <2>6 DEF Once, One
  <2>8. Reachable(p)'
    BY <1>1, <2>1, <2>2, <2>5, <2>6 DEF Reachable
  <2> QED
    BY <2>1, <2>2, <2>5, <2>7, <2>8
<1>7. ASSUME NEW q \in Prompts, CliWithdrawsPrompt(q)
      PROVE  PromptInv'
  <2> SUFFICES ASSUME NEW p \in Prompts
               PROVE  /\ Once(p)' /\ Reachable(p)'
                      /\ WithdrawnIn(stdout', p) => p \in cli'.used /\ p \notin cli'.open
    BY DEF PromptInv
  <2>1. /\ Once(p) /\ Reachable(p)
        /\ WithdrawnIn(stdout, p) => p \in cli.used /\ p \notin cli.open
    BY DEF PromptInv
  <2>2. /\ q \in cli.open /\ cli'.used = cli.used /\ cli'.open = cli.open \ {q}
        /\ stdout' = Append(stdout, Msg("withdraw", q)) /\ UNCHANGED stdin
    BY <1>1, <1>7 DEF CliWithdrawsPrompt, CliType
  <2>3. Msg("withdraw", q) \in Report
    BY PromptFacts
  <2>4. /\ Asked(p)' = Asked(p) + (IF Msg("withdraw", q) = Msg("prompt", p) THEN 1 ELSE 0)
        /\ WithdrawnIn(stdout', p) <=>
               WithdrawnIn(stdout, p) \/ Msg("withdraw", q) = Msg("withdraw", p)
    BY <2>2, <2>3, ReportAdds
  <2>5. Asked(p)' = Asked(p) /\ (WithdrawnIn(stdout', p) => WithdrawnIn(stdout, p) \/ p = q)
    <3>1. Msg("withdraw", q) = Msg("withdraw", p) <=> p = q
      BY DEF Msg
    <3>2. Msg("withdraw", q) # Msg("prompt", p)
      BY DEF Msg
    <3> QED
      BY <2>4, <3>1, <3>2, PromptFacts
  <2>6. OnTheWay(p)' = OnTheWay(p)
    BY <2>2 DEF OnTheWay
  <2>7. Once(p)'
    BY <1>1, <2>1, <2>2, <2>5 DEF Once
  <2>8. Reachable(p)'
    BY <1>1, <2>1, <2>2, <2>5, <2>6 DEF Reachable
  <2> QED
    BY <1>1, <2>1, <2>2, <2>5, <2>7, <2>8
<1>8. ASSUME NEW code \in {"zero", "other"}, CliExits(code)
      PROVE  PromptInv'
  <2>1. ~cli'.alive /\ cli'.used = cli.used /\ cli'.open = cli.open /\ UNCHANGED stdout
    BY <1>1, <1>8 DEF CliExits, CliType
  <2>2. \A p \in Prompts : Asked(p)' = Asked(p)
    BY <2>1 DEF Asked
  <2> QED
    BY <1>1, <2>1, <2>2 DEF PromptInv, Once, Reachable
<1> QED
  BY <1>2, <1>3, <1>4, <1>5, <1>6, <1>7, <1>8 DEF CliNext

LEMMA PromptsInvariant == Spec => [](TypeInv /\ PromptInv)
<1>1. PromptInv /\ UNCHANGED vars => PromptInv'
  BY DEF vars, PromptInv, Once, Reachable, Asked, OnTheWay
<1>2. TypeInv /\ PromptInv /\ [Next]_vars => PromptInv'
  BY <1>1, CallerPrompts, ActorPrompts, CliKeepsPrompts DEF Next
<1> QED
  BY <1>2, InitPrompts, TypesInvariant, PTL DEF Spec

\* A request of the CLI gets at most one response, from two clients, the remembered
\* tool and the quarantine together.
THEOREM OneAnswerHolds == Spec => []OneAnswer
<1>1. TypeInv /\ PromptInv => OneAnswer
  <2> SUFFICES ASSUME TypeInv, PromptInv, NEW p \in Prompts
               PROVE  eng.answers[p] <= 1
    BY DEF OneAnswer
  <2>1. Once(p) /\ Asked(p) \in Nat /\ eng.answers[p] \in Nat
    BY PromptFacts DEF PromptInv
  <2> QED
    BY <2>1 DEF Once, One
<1> QED
  BY <1>1, PromptsInvariant, PTL

\* A prompt the CLI waits for can always still be answered: it will be read, it is on
\* the user's screen, or its answer is on the way.
THEOREM PromptsAreReachable == Spec => []PromptReachable
<1>1. TypeInv /\ PromptInv => PromptReachable
  <2> SUFFICES ASSUME TypeInv, PromptInv, actor = "running", cli.alive, NEW p \in cli.open
               PROVE  \/ Contains(stdout, Msg("prompt", p))
                      \/ p \in eng.pending /\ p \in cards
                      \/ Contains(stdin, Msg("answer", p))
    BY DEF PromptReachable
  <2>1. p \in Prompts
    BY DEF TypeInv, CliShape, CliType
  <2>2. Contains(stdout, Msg("prompt", p)) <=> Asked(p) # 0
    BY <2>1, PromptFacts, ContainsIsHit DEF Asked
  <2>3. Reachable(p)
    BY <2>1 DEF PromptInv
  <2> QED
    BY <2>2, <2>3 DEF Reachable, OnTheWay
<1> QED
  BY <1>1, PromptsInvariant, PTL

-----------------------------------------------------------------------------
(* Order.  A message goes from the mailbox to the queue, to stdin and into   *)
(* the CLI; whatever is further on its way was sent before what is behind it. *)

\* The pairs of s that are in order are those of R.
SortedBy(s, R) == \A i, j \in 1 .. Len(s) : i < j => <<s[i], s[j]>> \in R

LEMMA SortedAppend ==
    ASSUME NEW T, NEW s \in Seq(T), NEW e \in T, NEW R, SortedBy(s, R),
           \A x \in T : Contains(s, x) => <<x, e>> \in R
    PROVE  SortedBy(Append(s, e), R)
<1> DEFINE t == Append(s, e)
           n == Len(s)
<1>1. /\ n \in Nat /\ Len(t) = n + 1 /\ t[n + 1] = e
      /\ \A i \in 1 .. n : t[i] = s[i] /\ s[i] \in T
  BY AppendProperties, ElementOfSeq
<1>2. \A i \in 1 .. n : <<s[i], e>> \in R
  BY <1>1 DEF Contains
<1>3. \A i, j \in 1 .. n : i < j => <<s[i], s[j]>> \in R
  BY DEF SortedBy
<1> HIDE DEF t, n
<1>4. \A i, j \in 1 .. n + 1 : i < j => <<t[i], t[j]>> \in R
  <2> SUFFICES ASSUME NEW i \in 1 .. n + 1, NEW j \in 1 .. n + 1, i < j
               PROVE  <<t[i], t[j]>> \in R
    OBVIOUS
  <2>1. i \in 1 .. n /\ t[i] = s[i]
    BY <1>1
  <2>2. CASE j = n + 1
    BY <1>1, <1>2, <2>1, <2>2
  <2>3. CASE j # n + 1
    <3>1. j \in 1 .. n /\ t[j] = s[j]
      BY <1>1, <2>3
    <3> QED
      BY <1>3, <2>1, <3>1
  <2> QED
    BY <2>2, <2>3
<1> QED
  BY <1>1, <1>4 DEF SortedBy, t

LEMMA SortedTail ==
    ASSUME NEW T, NEW s \in Seq(T), s # <<>>, NEW R, SortedBy(s, R)
    PROVE  /\ SortedBy(Tail(s), R)
           /\ \A x : Contains(Tail(s), x) => <<Head(s), x>> \in R
<1> DEFINE t == Tail(s)
           n == Len(s)
<1>1. /\ n \in Nat \ {0} /\ Len(t) = n - 1 /\ Head(s) = s[1]
      /\ \A i \in 1 .. n - 1 : t[i] = s[i + 1]
  BY HeadTailProperties, EmptySeq
<1>2. \A i, j \in 1 .. n : i < j => <<s[i], s[j]>> \in R
  BY DEF SortedBy
<1> HIDE DEF t, n
<1>3. \A i \in 1 .. n - 1 : i + 1 \in 1 .. n /\ 1 < i + 1 /\ 1 \in 1 .. n
  BY <1>1
<1>4. \A i, j \in 1 .. n - 1 : i < j => <<t[i], t[j]>> \in R
  <2> SUFFICES ASSUME NEW i \in 1 .. n - 1, NEW j \in 1 .. n - 1, i < j
               PROVE  <<t[i], t[j]>> \in R
    OBVIOUS
  <2>1. i + 1 \in 1 .. n /\ j + 1 \in 1 .. n /\ i + 1 < j + 1
    BY <1>1
  <2>2. t[i] = s[i + 1] /\ t[j] = s[j + 1]
    BY <1>1
  <2> QED
    BY <1>2, <2>1, <2>2
<1>5. \A i \in 1 .. n - 1 : <<s[1], t[i]>> \in R
  <2> SUFFICES ASSUME NEW i \in 1 .. n - 1
               PROVE  <<s[1], t[i]>> \in R
    OBVIOUS
  <2>1. t[i] = s[i + 1]
    BY <1>1
  <2> QED
    BY <1>2, <1>3, <2>1
<1> QED
  BY <1>1, <1>4, <1>5 DEF SortedBy, Contains, t

\* What must be in order: two tickets, two lines of stdin, two orders.
TicketsAsked == {x \in Tickets \X Tickets : Before(x[1], x[2])}
LinesAsked == {x \in Line \X Line :
    \A t, u \in Tickets : x[1] = Msg("user", t) /\ x[2] = Msg("user", u) => Before(t, u)}
OrdersAsked == {x \in Order \X Order :
    \A t, u \in Tickets : x[1] = Cmd("send", t) /\ x[2] = Cmd("send", u) => Before(t, u)}

\* The tickets of a sequence of tickets, of lines, of orders.
Of(s) == {t \in Tickets : Contains(s, t)}
InLines(s) == {t \in Tickets : Contains(s, Msg("user", t))}
InOrders(s) == {t \in Tickets : Contains(s, Cmd("send", t))}

Ahead(A, B) == \A t \in A, u \in B : Before(t, u)

\* The way of a message, from the CLI back to the mailbox.
Ordered(took, lines, queue, orders) ==
    /\ SortedBy(took, TicketsAsked) /\ SortedBy(lines, LinesAsked)
    /\ SortedBy(queue, TicketsAsked) /\ SortedBy(orders, OrdersAsked)
    /\ Ahead(Of(took), InLines(lines)) /\ Ahead(Of(took), Of(queue))
    /\ Ahead(Of(took), InOrders(orders)) /\ Ahead(InLines(lines), Of(queue))
    /\ Ahead(InLines(lines), InOrders(orders)) /\ Ahead(Of(queue), InOrders(orders))
    /\ Of(took) \cup InLines(lines) \cup Of(queue) \cup InOrders(orders) \subseteq Of(asked)

OrderInv == Ordered(cli.taken, stdin, eng.queue, mailbox)

LEMMA OrderFacts ==
    ASSUME TypeInv
    PROVE  /\ cli.taken \in Seq(Tickets) /\ stdin \in Seq(Line) /\ eng \in EngineType
           /\ eng.queue \in Seq(Tickets) /\ mailbox \in Seq(Order)
BY EngineFacts, FieldTypes DEF TypeInv, CliShape, CliType

LEMMA NothingIn == Of(<<>>) = {} /\ InLines(<<>>) = {} /\ InOrders(<<>>) = {}
BY DEF Of, InLines, InOrders, Contains

LEMMA NothingSorted == ASSUME NEW R PROVE SortedBy(<<>>, R)
BY DEF SortedBy

\* The history of what was asked does not change: the order of the next state can be
\* judged by the history of this one.
LEMMA SameHistory ==
    ASSUME UNCHANGED asked, Ordered(cli'.taken, stdin', eng'.queue, mailbox')
    PROVE  OrderInv'
BY DEF OrderInv, Ordered, TicketsAsked, LinesAsked, OrdersAsked, Ahead, Before, Of

\* Something was dropped.
LEMMA QueueDropped ==
    ASSUME NEW took, NEW lines, NEW queue, NEW orders, Ordered(took, lines, queue, orders)
    PROVE  Ordered(took, lines, <<>>, orders)
BY NothingIn, NothingSorted DEF Ordered, Ahead

LEMMA OrdersDropped ==
    ASSUME NEW took, NEW lines, NEW queue, NEW orders, Ordered(took, lines, queue, orders)
    PROVE  Ordered(took, lines, queue, <<>>)
BY NothingIn, NothingSorted DEF Ordered, Ahead

LEMMA LinesDropped ==
    ASSUME NEW took, NEW lines, NEW queue, NEW orders, Ordered(took, lines, queue, orders)
    PROVE  Ordered(took, <<>>, queue, orders)
BY NothingIn, NothingSorted DEF Ordered, Ahead

LEMMA HeadDropped ==
    ASSUME NEW took, NEW lines, NEW queue \in Seq(Tickets), NEW orders,
           Ordered(took, lines, queue, orders), queue # <<>>
    PROVE  Ordered(took, lines, Tail(queue), orders)
<1>1. SortedBy(Tail(queue), TicketsAsked)
  BY SortedTail DEF Ordered
<1>2. Of(Tail(queue)) \subseteq Of(queue)
  BY ContainsOfTail DEF Of
<1> QED
  BY <1>1, <1>2 DEF Ordered, Ahead

LEMMA LineRead ==
    ASSUME NEW took, NEW lines \in Seq(Line), NEW queue, NEW orders,
           Ordered(took, lines, queue, orders), lines # <<>>
    PROVE  Ordered(took, Tail(lines), queue, orders)
<1>1. SortedBy(Tail(lines), LinesAsked)
  BY SortedTail DEF Ordered
<1>2. InLines(Tail(lines)) \subseteq InLines(lines)
  BY ContainsOfTail DEF InLines
<1> QED
  BY <1>1, <1>2 DEF Ordered, Ahead

LEMMA OrderTaken ==
    ASSUME NEW took, NEW lines, NEW queue, NEW orders \in Seq(Order),
           Ordered(took, lines, queue, orders), orders # <<>>
    PROVE  Ordered(took, lines, queue, Tail(orders))
<1>1. SortedBy(Tail(orders), OrdersAsked)
  BY SortedTail DEF Ordered
<1>2. InOrders(Tail(orders)) \subseteq InOrders(orders)
  BY ContainsOfTail DEF InOrders
<1> QED
  BY <1>1, <1>2 DEF Ordered, Ahead

\* Something that is no message was added.
LEMMA OtherLine ==
    ASSUME NEW took, NEW lines \in Seq(Line), NEW queue, NEW orders,
           Ordered(took, lines, queue, orders),
           NEW l \in Line, \A t \in Tickets : l # Msg("user", t)
    PROVE  Ordered(took, Append(lines, l), queue, orders)
<1>1. \A x \in Line : <<x, l>> \in LinesAsked
  BY DEF LinesAsked
<1>2. SortedBy(Append(lines, l), LinesAsked)
  BY <1>1, SortedAppend DEF Ordered
<1>3. InLines(Append(lines, l)) = InLines(lines)
  BY ContainsOfAppend DEF InLines
<1> QED
  BY <1>2, <1>3 DEF Ordered

LEMMA OtherCommand ==
    ASSUME NEW took, NEW lines, NEW queue, NEW orders \in Seq(Order),
           Ordered(took, lines, queue, orders),
           NEW c \in Order, c.k # "send"
    PROVE  Ordered(took, lines, queue, Append(orders, c))
<1>1. \A t \in Tickets : c # Cmd("send", t)
  BY DEF Cmd
<1>2. \A x \in Order : <<x, c>> \in OrdersAsked
  BY <1>1 DEF OrdersAsked
<1>3. SortedBy(Append(orders, c), OrdersAsked)
  BY <1>2, SortedAppend DEF Ordered
<1>4. InOrders(Append(orders, c)) = InOrders(orders)
  BY <1>1, ContainsOfAppend DEF InOrders
<1> QED
  BY <1>3, <1>4 DEF Ordered

\* A message goes one step further.
LEMMA MessageQueued ==
    ASSUME NEW took, NEW lines, NEW queue \in Seq(Tickets), NEW orders \in Seq(Order),
           Ordered(took, lines, queue, orders),
           NEW t \in Tickets, orders # <<>>, Head(orders) = Cmd("send", t)
    PROVE  Ordered(took, lines, Append(queue, t), Tail(orders))
<1>1. t \in InOrders(orders) /\ InOrders(Tail(orders)) \subseteq InOrders(orders)
  BY ContainsOfTail DEF InOrders
<1>2. Of(Append(queue, t)) = Of(queue) \cup {t}
  BY ContainsOfAppend DEF Of
<1>3. Ahead(Of(queue), InOrders(orders))
  BY DEF Ordered
<1>4. \A x \in Tickets : Contains(queue, x) => <<x, t>> \in TicketsAsked
  BY <1>1, <1>3 DEF Ahead, TicketsAsked, Of
<1>5. SortedBy(Append(queue, t), TicketsAsked)
  BY <1>4, SortedAppend DEF Ordered
<1>6. /\ SortedBy(Tail(orders), OrdersAsked)
      /\ \A x : Contains(Tail(orders), x) => <<Cmd("send", t), x>> \in OrdersAsked
  BY SortedTail DEF Ordered
<1>7. \A u \in InOrders(Tail(orders)) : Before(t, u)
  BY <1>6 DEF InOrders, OrdersAsked
<1> QED
  BY <1>1, <1>2, <1>5, <1>6, <1>7 DEF Ordered, Ahead

LEMMA MessageWritten ==
    ASSUME NEW took, NEW lines \in Seq(Line), NEW queue \in Seq(Tickets), NEW orders,
           Ordered(took, lines, queue, orders), queue # <<>>
    PROVE  Ordered(took, Append(lines, Msg("user", Head(queue))), Tail(queue), orders)
<1> DEFINE t == Head(queue)
           l == Msg("user", t)
<1>1. t \in Tickets /\ l \in Line
  BY HeadTailProperties DEF Line, Turns
<1>2. \A u \in Tickets : l = Msg("user", u) <=> u = t
  BY DEF Msg
<1>3. \A x \in Tickets : Contains(queue, x) <=> Contains(Tail(queue), x) \/ t = x
  BY ContainsOfTail
<1>4. SortedBy(Tail(queue), TicketsAsked)
      /\ \A x : Contains(Tail(queue), x) => <<t, x>> \in TicketsAsked
  BY SortedTail DEF Ordered
<1> HIDE DEF t, l
<1>5. t \in Of(queue) /\ Of(Tail(queue)) \subseteq Of(queue)
  BY <1>1, <1>3 DEF Of
<1>6. InLines(Append(lines, l)) = InLines(lines) \cup {t}
  <2>1. \A u \in Tickets : Contains(Append(lines, l), Msg("user", u)) <=>
            Contains(lines, Msg("user", u)) \/ Msg("user", u) = l
    BY <1>1, ContainsOfAppend
  <2> QED
    BY <1>1, <1>2, <2>1 DEF InLines
<1>7. \A x \in Line : Contains(lines, x) => <<x, l>> \in LinesAsked
  <2>1. Ahead(InLines(lines), Of(queue))
    BY DEF Ordered
  <2> SUFFICES ASSUME NEW x \in Line, Contains(lines, x), NEW a \in Tickets, NEW b \in Tickets,
                      x = Msg("user", a), l = Msg("user", b)
               PROVE  Before(a, b)
    BY <1>1 DEF LinesAsked
  <2>2. b = t /\ a \in InLines(lines)
    BY <1>2 DEF InLines
  <2> QED
    BY <1>5, <2>1, <2>2 DEF Ahead
<1>8. SortedBy(Append(lines, l), LinesAsked)
  BY <1>1, <1>7, SortedAppend DEF Ordered
<1>9. \A u \in Of(Tail(queue)) : Before(t, u)
  BY <1>4 DEF Of, TicketsAsked
<1>10. Ordered(took, Append(lines, l), Tail(queue), orders)
  BY <1>4, <1>5, <1>6, <1>8, <1>9 DEF Ordered, Ahead
<1> QED
  BY <1>10 DEF l, t

LEMMA MessageTaken ==
    ASSUME NEW took \in Seq(Tickets), NEW lines \in Seq(Line), NEW queue, NEW orders,
           Ordered(took, lines, queue, orders),
           NEW t \in Tickets, lines # <<>>, Head(lines) = Msg("user", t)
    PROVE  Ordered(Append(took, t), Tail(lines), queue, orders)
<1>1. t \in InLines(lines) /\ InLines(Tail(lines)) \subseteq InLines(lines)
  BY ContainsOfTail DEF InLines
<1>2. Of(Append(took, t)) = Of(took) \cup {t}
  BY ContainsOfAppend DEF Of
<1>3. Ahead(Of(took), InLines(lines))
  BY DEF Ordered
<1>4. \A x \in Tickets : Contains(took, x) => <<x, t>> \in TicketsAsked
  BY <1>1, <1>3 DEF Ahead, TicketsAsked, Of
<1>5. SortedBy(Append(took, t), TicketsAsked)
  BY <1>4, SortedAppend DEF Ordered
<1>6. /\ SortedBy(Tail(lines), LinesAsked)
      /\ \A x : Contains(Tail(lines), x) => <<Msg("user", t), x>> \in LinesAsked
  BY SortedTail DEF Ordered
<1>7. \A u \in InLines(Tail(lines)) : Before(t, u)
  BY <1>6 DEF InLines, LinesAsked
<1> QED
  BY <1>1, <1>2, <1>5, <1>6, <1>7 DEF Ordered, Ahead

LEMMA InitOrder == Init => OrderInv
<1> SUFFICES ASSUME Init PROVE OrderInv
  OBVIOUS
<1>1. cli.taken = <<>> /\ stdin = <<>> /\ eng.queue = <<>> /\ mailbox = <<>>
  <2>1. PICK status \in {"running", "idle"} :
          eng = [active |-> NoTurn, quarantine |-> FALSE, interruptSent |-> FALSE,
                 queue |-> <<>>, loop |-> NoLoop, pendingInterrupt |-> FALSE,
                 pending |-> {}, remembered |-> FALSE, state |-> "", gotError |-> FALSE,
                 status |-> status, metaError |-> FALSE,
                 reply |-> [t \in Tickets |-> "none"],
                 answers |-> [q \in Prompts |-> 0], interrupted |-> FALSE,
                 outcome |-> "none", out |-> <<>>]
    BY DEF Init
  <2>2. stdin = <<>> /\ mailbox = <<>> /\ cli.taken = <<>>
    BY DEF Init
  <2> QED
    BY <2>1, <2>2
<1> QED
  BY <1>1, NothingIn, NothingSorted DEF OrderInv, Ordered, Ahead

\* What is sent now comes after everything that was sent.
LEMMA SendOrder ==
    ASSUME TypeInv, OrderInv, NEW t \in Tickets, SendMessage(t)
    PROVE  OrderInv'
<1> DEFINE c == Cmd("send", t)
<1>1. /\ mailbox' = Append(mailbox, c) /\ asked' = Append(asked, t)
      /\ UNCHANGED <<cli, stdin>> /\ eng'.queue = eng.queue
  BY SendMessageEffect
<1>2. asked \in Seq(Tickets) /\ c \in Order /\ mailbox \in Seq(Order)
  BY OrderFacts DEF TypeInv, Order
<1>3. \A u \in Tickets : c = Cmd("send", u) <=> u = t
  BY DEF Cmd
<1> HIDE DEF c
<1>4. \A u, v : Before(u, v) => Before(u, v)'
  <2> DEFINE n == Len(asked)
  <2>1. /\ n \in Nat /\ Len(asked') = n + 1
        /\ \A i \in 1 .. n : asked'[i] = asked[i]
        /\ DOMAIN asked = 1 .. n /\ DOMAIN asked' = 1 .. n + 1
    BY <1>1, <1>2, AppendProperties
  <2> HIDE DEF n
  <2>2. \A i \in 1 .. n : i \in 1 .. n + 1
    BY <2>1
  <2> QED
    BY <2>1, <2>2 DEF Before
<1>5. \A u : Contains(asked, u) => Before(u, t)'
  <2> DEFINE n == Len(asked)
  <2>1. /\ n \in Nat /\ Len(asked') = n + 1 /\ asked'[n + 1] = t
        /\ \A i \in 1 .. n : asked'[i] = asked[i]
        /\ DOMAIN asked' = 1 .. n + 1
    BY <1>1, <1>2, AppendProperties
  <2>2. ASSUME NEW i \in 1 .. n
        PROVE  i \in 1 .. n + 1 /\ n + 1 \in 1 .. n + 1 /\ i < n + 1
    BY <2>1
  <2> QED
    BY <2>1, <2>2 DEF Before, Contains
<1>6. Of(asked)' = Of(asked) \cup {t}
  BY <1>1, <1>2, ContainsOfAppend DEF Of
<1>7. InOrders(mailbox)' = InOrders(mailbox) \cup {t}
  <2>1. \A u \in Tickets : Contains(mailbox', Cmd("send", u)) <=>
            Contains(mailbox, Cmd("send", u)) \/ Cmd("send", u) = c
    BY <1>1, <1>2, ContainsOfAppend
  <2> QED
    BY <1>3, <2>1 DEF InOrders
<1>8. TicketsAsked \subseteq TicketsAsked' /\ LinesAsked \subseteq LinesAsked'
      /\ OrdersAsked \subseteq OrdersAsked'
  BY <1>4 DEF TicketsAsked, LinesAsked, OrdersAsked
<1>9. /\ SortedBy(cli.taken, TicketsAsked') /\ SortedBy(stdin, LinesAsked')
      /\ SortedBy(eng.queue, TicketsAsked') /\ SortedBy(mailbox, OrdersAsked')
  BY <1>8 DEF OrderInv, Ordered, SortedBy
<1>10. \A x \in Order : Contains(mailbox, x) => <<x, c>> \in OrdersAsked'
  <2> SUFFICES ASSUME NEW x \in Order, Contains(mailbox, x), NEW a \in Tickets,
                      NEW b \in Tickets, x = Cmd("send", a), c = Cmd("send", b)
               PROVE  Before(a, b)'
    BY <1>2 DEF OrdersAsked
  <2>1. b = t /\ a \in InOrders(mailbox)
    BY <1>3 DEF InOrders
  <2>2. Contains(asked, a)
    BY <2>1 DEF OrderInv, Ordered, Of
  <2> QED
    BY <1>5, <2>1, <2>2
<1>11. SortedBy(mailbox', OrdersAsked')
  BY <1>1, <1>2, <1>9, <1>10, SortedAppend
<1>12. /\ Of(cli.taken)' = Of(cli.taken) /\ InLines(stdin)' = InLines(stdin)
       /\ Of(eng.queue)' = Of(eng.queue)
  BY <1>1 DEF Of, InLines
<1>13. \A u \in Of(cli.taken) \cup InLines(stdin) \cup Of(eng.queue) : Before(u, t)'
  BY <1>5 DEF OrderInv, Ordered, Of
<1>14. /\ Ahead(Of(cli.taken), InLines(stdin))' /\ Ahead(Of(cli.taken), Of(eng.queue))'
       /\ Ahead(InLines(stdin), Of(eng.queue))'
  BY <1>4, <1>12 DEF OrderInv, Ordered, Ahead
<1>15. /\ Ahead(Of(cli.taken), InOrders(mailbox))' /\ Ahead(InLines(stdin), InOrders(mailbox))'
       /\ Ahead(Of(eng.queue), InOrders(mailbox))'
  BY <1>4, <1>7, <1>12, <1>13 DEF OrderInv, Ordered, Ahead
<1>16. (Of(cli.taken) \cup InLines(stdin) \cup Of(eng.queue) \cup InOrders(mailbox)
           \subseteq Of(asked))'
  BY <1>6, <1>7, <1>12 DEF OrderInv, Ordered
<1> QED
  BY <1>1, <1>9, <1>11, <1>14, <1>15, <1>16 DEF OrderInv, Ordered

LEMMA CallerOrder ==
    ASSUME TypeInv, OrderInv, CallerNext
    PROVE  OrderInv'
<1>1. CASE \E t \in Tickets : SendMessage(t)
  BY <1>1, SendOrder
<1>2. ASSUME NEW c \in Order, c.k # "send", Post(c), UNCHANGED <<eng, asked>>
      PROVE  OrderInv'
  <2>1. mailbox' = Append(mailbox, c) /\ UNCHANGED <<stdin, cli>>
    BY <1>2 DEF Post
  <2>2. Ordered(cli.taken, stdin, eng.queue, Append(mailbox, c))
    BY <1>2, OrderFacts, OtherCommand DEF OrderInv
  <2> QED
    BY <1>2, <2>1, <2>2, SameHistory
<1>3. ASSUME NEW k \in {"interrupt", "stop", "ralph", "unralph"}, Post(Cmd(k, NoTurn)),
             UNCHANGED <<eng, asked>>
      PROVE  OrderInv'
  <2>1. Cmd(k, NoTurn) \in Order /\ Cmd(k, NoTurn).k # "send"
    BY DEF Order, Cmd
  <2> QED
    BY <1>2, <1>3, <2>1
<1>4. ASSUME NEW p \in Prompts, NEW keep \in BOOLEAN, Respond(p, keep)
      PROVE  OrderInv'
  <2> DEFINE c == [k |-> "answer", of |-> p, keep |-> keep]
  <2>1. c \in Order /\ c.k # "send"
    BY DEF Order
  <2>2. Post(c) /\ UNCHANGED <<eng, asked>>
    BY <1>4 DEF Respond, AnswerCmd
  <2> HIDE DEF c
  <2> QED
    BY <1>2, <2>1, <2>2
<1>5. CASE AppExit
  BY <1>5, SameHistory DEF AppExit, OrderInv
<1> QED
  BY <1>1, <1>3, <1>4, <1>5
     DEF CallerNext, Interrupt, StopSession, StartRalphLoop, CancelRalphLoop

\* A dispatch writes the head of the queue, or drops it, or writes the loop's prompt.
LEMMA DispatchOrder ==
    ASSUME TypeInv, NEW m \in EngineType, Moved(m), NEW orders,
           Ordered(cli.taken, stdin, m.queue, orders)
    PROVE  Ordered(cli.taken, stdin', eng'.queue, orders)
<1>1. m.queue \in Seq(Tickets) /\ stdin \in Seq(Line)
  BY FieldTypes, OrderFacts
<1>2. CASE Stays(m, eng') /\ stdin' = stdin
  BY <1>2 DEF Stays
<1>3. CASE Fails(m, eng') /\ stdin' = stdin
  BY <1>1, <1>3, HeadDropped DEF Fails
<1>4. ASSUME NEW turn \in Turns, Starts(m, eng', turn), stdin' = Append(stdin, Msg("user", turn))
      PROVE  Ordered(cli.taken, stdin', eng'.queue, orders)
  <2>1. CASE turn = Ralph
    <3>1. \A t \in Tickets : Msg("user", turn) # Msg("user", t)
      BY <2>1, SessionActorAssumption DEF Msg
    <3>2. Msg("user", turn) \in Line
      BY DEF Line
    <3>3. eng'.queue = m.queue
      BY <1>4, <2>1 DEF Starts
    <3> QED
      BY <1>1, <1>4, <3>1, <3>2, <3>3, OtherLine
  <2>2. CASE turn # Ralph
    <3>1. m.queue # <<>> /\ turn = Head(m.queue) /\ eng'.queue = Tail(m.queue)
      BY <1>4, <2>2 DEF Starts
    <3> QED
      BY <1>1, <1>4, <3>1, MessageWritten
  <2> QED
    BY <2>1, <2>2
<1> QED
  BY <1>2, <1>3, <1>4 DEF Moved

LEMMA ActorOrder ==
    ASSUME TypeInv, OrderInv, ActorNext
    PROVE  OrderInv'
<1> DEFINE Kept(orders) == Ordered(cli.taken, stdin, eng.queue, orders)
           Quietly == stdin' = stdin \/ \E l \in Line : l.k # "user" /\ stdin' = Append(stdin, l)
<1>1. UNCHANGED asked /\ cli'.taken = cli.taken
  BY OrderFacts DEF ActorNext, HandleSendMessage, ReadResult, HandleInterrupt, HandleStop,
     HandleResponse, HandleStartRalph, HandleCancelRalph, ReadPromise, ReadPrompt,
     ReadWithdraw, HardTimeout, QuarantineInterrupt, QuarantineKill, RetryRalph, HandleEof,
     HandleCancelled, Cleanup, Receive, ReadStdout, Tick, TypeInv, CliShape, CliType
<1>2. Kept(mailbox) /\ stdin \in Seq(Line) /\ eng.queue \in Seq(Tickets)
  BY OrderFacts DEF OrderInv
<1>3. ASSUME NEW k, Receive(k)
      PROVE  Kept(mailbox')
  BY <1>2, <1>3, ReceiveEffect, OrderFacts, OrderTaken
<1>4. ASSUME Kept(mailbox'), Quietly, eng'.queue = eng.queue
      PROVE  OrderInv'
  <2>1. ASSUME NEW l \in Line, l.k # "user", stdin' = Append(stdin, l)
        PROVE  Ordered(cli.taken, stdin', eng.queue, mailbox')
    <3>1. \A t \in Tickets : l # Msg("user", t)
      BY <2>1 DEF Msg
    <3> QED
      BY <1>2, <1>4, <2>1, <3>1, OtherLine
  <2>2. Ordered(cli.taken, stdin', eng.queue, mailbox')
    BY <1>4, <2>1
  <2> QED
    BY <1>1, <1>4, <2>2, SameHistory
<1>5. ASSUME NEW m \in EngineType, Moved(m), Ordered(cli.taken, stdin, m.queue, mailbox')
      PROVE  OrderInv'
  BY <1>1, <1>5, DispatchOrder, SameHistory
<1> HIDE DEF Kept, Quietly
<1>6. ASSUME NEW expired \in BOOLEAN, HandleSendMessage(expired)
      PROVE  OrderInv'
  <2>1. PICK t \in Tickets, m \in EngineType :
            Head(mailbox) = Cmd("send", t) /\ Queued(m, t) /\ Moved(m)
    BY <1>6, HandleSendMessageEffect
  <2>2. mailbox # <<>> /\ mailbox' = Tail(mailbox) /\ m.queue = Append(eng.queue, t)
    BY <1>6, <2>1, ReceiveEffect DEF HandleSendMessage, Queued
  <2>3. Ordered(cli.taken, stdin, Append(eng.queue, t), Tail(mailbox))
    BY <1>2, <2>1, <2>2, OrderFacts, MessageQueued DEF Kept
  <2> QED
    BY <1>5, <2>1, <2>2, <2>3
<1>7. ASSUME NEW expired \in BOOLEAN, ReadResult(expired)
      PROVE  OrderInv'
  <2>1. PICK m : /\ TurnOver(eng, m)
                 /\ IF eng.active = NoTurn /\ ~eng.quarantine
                    THEN eng' = m /\ stdin' = stdin ELSE Moved(m)
    BY <1>7, ReadResultEffect
  <2>2. mailbox' = mailbox /\ m \in EngineType /\ m.queue = eng.queue
    BY <1>7, <2>1 DEF ReadResult, ReadStdout, TurnOver, SameTickets
  <2>3. CASE Moved(m)
    BY <1>2, <1>5, <2>2, <2>3 DEF Kept
  <2>4. CASE eng' = m /\ stdin' = stdin
    BY <1>2, <1>4, <2>2, <2>4 DEF Quietly
  <2> QED
    BY <2>1, <2>3, <2>4
<1>8. ASSUME Interrupts
      PROVE  Quietly /\ eng'.queue = eng.queue
  <2>1. Msg("interrupt", NoTurn) \in Line /\ Msg("interrupt", NoTurn).k # "user"
    BY DEF Line, Msg
  <2> QED
    BY <1>8, <2>1 DEF Quietly, Interrupts, Same, SameTickets, Wrote
<1>9. CASE HandleInterrupt
  BY <1>3, <1>4, <1>8, <1>9, HandleInterruptEffect DEF HandleInterrupt
<1>10. CASE QuarantineInterrupt
  <2>1. mailbox' = mailbox
    BY <1>10 DEF QuarantineInterrupt, Tick
  <2> QED
    BY <1>2, <1>4, <1>8, <1>10, <2>1, QuarantineInterruptEffect
<1>11. CASE HandleStop
  BY <1>3, <1>4, <1>11 DEF HandleStop, Quietly
<1>12. CASE HandleCancelled \/ ReadWithdraw
  <2>1. mailbox' = mailbox /\ UNCHANGED <<eng, stdin>>
    BY <1>12 DEF HandleCancelled, ReadWithdraw, ReadStdout
  <2> QED
    BY <1>2, <1>4, <2>1 DEF Quietly
<1>13. ASSUME NEW p \in Prompts, Answered(p) \/ stdin' = stdin
       PROVE  Quietly
  <2>1. Msg("answer", p) \in Line /\ Msg("answer", p).k # "user"
    BY DEF Line, Msg
  <2> QED
    BY <1>13, <2>1 DEF Answered, Quietly
<1>14. CASE HandleResponse
  <2>1. PICK p \in Prompts : Aside /\ (Answered(p) \/ stdin' = stdin)
    BY <1>14, HandleResponseEffect
  <2> QED
    BY <1>3, <1>4, <1>13, <1>14, <2>1 DEF HandleResponse, Aside, SameTickets
<1>15. CASE ReadPrompt
  <2>1. PICK p \in Prompts : Aside /\ (Answered(p) \/ stdin' = stdin)
    BY <1>15, ReadPromptEffect
  <2>2. mailbox' = mailbox
    BY <1>15 DEF ReadPrompt, ReadStdout
  <2> QED
    BY <1>2, <1>4, <1>13, <2>1, <2>2 DEF Aside, SameTickets
<1>16. CASE ReadPromise
  <2>1. mailbox' = mailbox
    BY <1>16 DEF ReadPromise, ReadStdout
  <2> QED
    BY <1>2, <1>4, <1>16, <2>1, ReadPromiseEffect DEF Quietly
<1>17. CASE HandleCancelRalph
  BY <1>3, <1>4, <1>17, HandleCancelRalphEffect
     DEF HandleCancelRalph, LoopOnly, Same, SameTickets, Quietly
<1>18. CASE HandleStartRalph
  <2>1. Kept(mailbox')
    BY <1>3, <1>18 DEF HandleStartRalph
  <2>2. CASE eng' = eng /\ stdin' = stdin
    BY <1>4, <2>1, <2>2 DEF Quietly
  <2>3. ASSUME NEW m \in EngineType, Same(eng, m), Moved(m)
        PROVE  OrderInv'
    <3>1. m.queue = eng.queue
      BY <2>3 DEF Same, SameTickets
    <3> QED
      BY <1>5, <2>1, <2>3, <3>1 DEF Kept
  <2> QED
    BY <1>18, <2>2, <2>3, HandleStartRalphEffect
<1>19. CASE HardTimeout
  <2>1. mailbox' = mailbox
    BY <1>19 DEF HardTimeout, Tick
  <2> QED
    BY <1>2, <1>4, <1>19, <2>1, HardTimeoutEffect DEF Quietly, SameTickets
<1>20. ASSUME GivesUp, mailbox' = mailbox
       PROVE  OrderInv'
  <2>1. eng'.queue = <<>> /\ stdin' = stdin
    BY <1>20 DEF GivesUp, Failed
  <2>2. Ordered(cli.taken, stdin, <<>>, mailbox)
    BY <1>2, QueueDropped DEF Kept
  <2> QED
    BY <1>1, <1>20, <2>1, <2>2, SameHistory
<1>21. CASE QuarantineKill
  BY <1>20, <1>21, QuarantineKillEffect DEF QuarantineKill, Tick
<1>22. CASE RetryRalph
  <2>1. mailbox' = mailbox
    BY <1>22 DEF RetryRalph, Tick
  <2> QED
    BY <1>2, <1>5, <1>22, <2>1, RetryRalphEffect, EngineFacts DEF Kept
<1>23. CASE HandleEof
  BY <1>20, <1>23, HandleEofEffect DEF HandleEof
<1>24. CASE Cleanup
  <2>1. eng'.queue = <<>> /\ mailbox' = <<>> /\ stdin' = stdin
    BY <1>24, CleanupEffect
  <2>2. Ordered(cli.taken, stdin, <<>>, <<>>)
    BY <1>2, QueueDropped, OrdersDropped DEF Kept
  <2> QED
    BY <1>1, <2>1, <2>2, SameHistory
<1> QED
  BY <1>6, <1>7, <1>9, <1>10, <1>11, <1>12, <1>14, <1>15, <1>16, <1>17, <1>18, <1>19, <1>21,
     <1>22, <1>23, <1>24 DEF ActorNext

\* The CLI takes the lines of its stdin one after the other.
LEMMA CliOrder ==
    ASSUME TypeInv, OrderInv, CliNext
    PROVE  OrderInv'
<1>1. UNCHANGED <<eng, mailbox, asked>>
  BY DEF CliNext, CliStep, CliTakesTurn, CliTakesAnswer, CliTakesInterrupt, CliPrompts,
         CliWithdrawsPrompt, CliFinishes, CliExits
<1>2. /\ cli \in CliType /\ cli.taken \in Seq(Tickets) /\ stdin \in Seq(Line)
      /\ Ordered(cli.taken, stdin, eng.queue, mailbox)
  BY OrderFacts DEF TypeInv, CliShape, OrderInv
<1>3. ASSUME NEW k, CliReads(k), cli'.taken = cli.taken
      PROVE  OrderInv'
  <2>1. stdin # <<>> /\ stdin' = Tail(stdin)
    BY <1>3, CliReadsEffect
  <2>2. Ordered(cli.taken, Tail(stdin), eng.queue, mailbox)
    BY <1>2, <2>1, LineRead
  <2> QED
    BY <1>1, <1>3, <2>1, <2>2, SameHistory
<1>4. CASE CliTakesTurn
  <2>1. PICK t \in Turns :
          /\ Head(stdin) = Msg("user", t)
          /\ cli' = [cli EXCEPT !.turn = t, !.taken = IF t = Ralph THEN @ ELSE Append(@, t)]
    BY <1>4, CliTakesTurnEffect
  <2>2. CliReads("user")
    BY <1>4 DEF CliTakesTurn
  <2>3. cli'.taken = IF t = Ralph THEN cli.taken ELSE Append(cli.taken, t)
    BY <1>2, <2>1 DEF CliType
  <2>4. CASE t = Ralph
    BY <1>3, <2>2, <2>3, <2>4
  <2>5. CASE t # Ralph
    <3>1. t \in Tickets /\ stdin # <<>> /\ stdin' = Tail(stdin)
      BY <2>2, <2>5, CliReadsEffect DEF Turns
    <3>2. Ordered(Append(cli.taken, t), Tail(stdin), eng.queue, mailbox)
      BY <1>2, <2>1, <3>1, MessageTaken
    <3> QED
      BY <1>1, <2>3, <2>5, <3>1, <3>2, SameHistory
  <2> QED
    BY <2>4, <2>5
<1>5. CASE CliTakesAnswer
  BY <1>2, <1>3, <1>5 DEF CliTakesAnswer, CliType
<1>6. CASE CliTakesInterrupt
  <2>1. CliReads("interrupt") /\ cli'.taken = cli.taken
    BY <1>2, <1>6 DEF CliTakesInterrupt, CliType
  <2> QED
    BY <1>3, <2>1
<1>7. CASE UNCHANGED stdin /\ cli'.taken = cli.taken
  BY <1>1, <1>2, <1>7, SameHistory
<1>8. CASE \E p \in Prompts : CliPrompts(p) \/ CliWithdrawsPrompt(p)
  BY <1>2, <1>7, <1>8 DEF CliPrompts, CliWithdrawsPrompt, CliType
<1>9. CASE \E bad, promise \in BOOLEAN : CliFinishes(bad, promise)
  BY <1>2, <1>7, <1>9 DEF CliFinishes, CliType
<1>10. CASE \E code \in {"zero", "other"} : CliExits(code)
  <2>1. stdin' = <<>> /\ cli'.taken = cli.taken
    BY <1>2, <1>10 DEF CliExits, CliType
  <2>2. Ordered(cli.taken, <<>>, eng.queue, mailbox)
    BY <1>2, LinesDropped
  <2> QED
    BY <1>1, <2>1, <2>2, SameHistory
<1> QED
  BY <1>4, <1>5, <1>6, <1>8, <1>9, <1>10 DEF CliNext

LEMMA OrderInvariant == Spec => [](TypeInv /\ OrderInv)
<1>1. OrderInv /\ UNCHANGED vars => OrderInv'
  BY SameHistory DEF vars, OrderInv
<1>2. TypeInv /\ OrderInv /\ [Next]_vars => OrderInv'
  BY <1>1, CallerOrder, ActorOrder, CliOrder DEF Next
<1> QED
  BY <1>2, InitOrder, TypesInvariant, PTL DEF Spec

\* HC #12: the CLI takes the users' messages in the order in which they were sent,
\* whatever was queued, interrupted, given up or written in between.
THEOREM TurnsAreInOrder == Spec => []TurnsInOrder
<1>1. TypeInv /\ OrderInv => TurnsInOrder
  <2> SUFFICES ASSUME TypeInv, OrderInv PROVE TurnsInOrder
    OBVIOUS
  <2>1. cli.taken \in Seq(Tickets) /\ DOMAIN cli.taken = 1 .. Len(cli.taken)
    BY OrderFacts
  <2>2. \A i, j \in DOMAIN cli.taken : i < j => Before(cli.taken[i], cli.taken[j])
    BY <2>1 DEF OrderInv, Ordered, SortedBy, TicketsAsked
  <2>3. \A t \in Tickets : Contains(cli.taken, t) => Contains(asked, t)
    BY DEF OrderInv, Ordered, Of
  <2> QED
    BY <2>2, <2>3 DEF TurnsInOrder
<1> QED
  BY <1>1, OrderInvariant, PTL
=============================================================================
