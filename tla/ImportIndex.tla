---------------------------- MODULE ImportIndex ----------------------------
(***************************************************************************)
(* import-index.jsonl: the keys of the events that importers have written,  *)
(* a key per line, from which a later sync takes the set of what it skips   *)
(* (load_import_skip_set, storage/cli_sessions_common.rs).                 *)
(*                                                                         *)
(* Keys go through a buffer that nothing synchronizes with the events: they  *)
(* may be in the file early, late or, where a write fails or the process    *)
(* ends, not at all.  What fails may stop within a line, and the line that  *)
(* is appended next is then glued to it: one line, which cannot be read.    *)
(*                                                                         *)
(* An index is a record: the keys of its whole lines; the unterminated last  *)
(* line; and, as a history, the bag of the keys that have been lost.         *)
(***************************************************************************)
EXTENDS Sequences, SequencesExt, Bags

(* The unterminated line: there is none, it is a part of a line, or a key    *)
(* that only lacks its line feed.                                          *)
Ended == <<>>
Part == <<"part">>

EmptyIndex == [keys |-> {}, tail |-> Ended, lost |-> EmptyBag]

LastKey(x) == {x.tail} \ {Ended, Part}

(* load_import_skip_set: a line that does not parse is passed over. *)
SkipSet(x) == x.keys \cup LastKey(x)

Lose(x, keys) == [x EXCEPT !.lost = @ (+) SetToBag(keys)]

(* The lines of the keys ks are appended. *)
AppendKeys(x, ks) ==
  IF ks = <<>> \/ x.tail = Ended THEN [x EXCEPT !.keys = @ \cup ToSet(ks)]
  ELSE Lose([x EXCEPT !.keys = @ \cup ToSet(Tail(ks)), !.tail = Ended],
            LastKey(x) \cup {Head(ks)})

(* What the index may be when the lines of ks are appended and the writing   *)
(* stops somewhere: after some whole lines, or within the next.             *)
CutAppend(x, ks) ==
  UNION {LET y == AppendKeys(x, SubSeq(ks, 1, n))
             rest == ToSet(ks) \ ToSet(SubSeq(ks, 1, n))
         IN {Lose(y, rest)} \cup
            (IF rest = {} THEN {}
             ELSE IF y.tail = Ended
                  THEN {Lose([y EXCEPT !.tail = Part], rest),
                        Lose([y EXCEPT !.tail = ks[n + 1]], rest \ {ks[n + 1]})}
                  ELSE {Lose([y EXCEPT !.tail = Part], rest \cup LastKey(y))})
         : n \in 0..Len(ks)}

TimesLost(key, x) == IF BagIn(key, x.lost) THEN x.lost[key] ELSE 0

=============================================================================
