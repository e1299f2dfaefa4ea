---------------------------- MODULE IndexSession ----------------------------
(***************************************************************************)
(* What a benchmark promises about the indexes it measures: to each of them   *)
(* the same requests are made, all of them, in order, as often as was asked   *)
(* for, and an index is as good as the set of the rows it was given.          *)
(*                                                                          *)
(* For a set of keys, which depends on the competitor, a read returns just    *)
(* the rows of the key; for others it may miss some, but returns none of       *)
(* another key.  A write brings in a row that was put aside, and nothing is    *)
(* read that is still put aside.                                            *)
(***************************************************************************)
EXTENDS Integers, SequencesExt

VARIABLES
  rowKey,   \* the key of each row of the dataset
  asked,    \* the keys to look up, in order
  repeats,  \* how often to do so
  phase,    \* "idle", "serving", "spoilt" once an answer is wrong, or "over"
  begun,    \* Runs begun
  aside,    \* the rows put aside, to be inserted
  stored,   \* the rows in the index
  sure,     \* the keys that the index is sure about
  times,    \* repetitions completed
  done,     \* requests served in this one
  answer    \* to the last lookup: its key, and the rows returned

input == <<rowKey, repeats>>
progress == <<times, done>>
service == <<stored, sure, progress>>
vars == <<input, asked, phase, begun, aside, service, answer>>

RowsOf(key) == {p \in DOMAIN rowKey : rowKey[p] = key}

NoAnswer == [key |-> -1, rows |-> {}]

OutOfService == stored = {} /\ sure = {} /\ times = 0 /\ done = 0

Init ==
  /\ phase = "idle" /\ begun = 0
  /\ aside = {} /\ OutOfService /\ answer = NoAnswer

(* Requests may be dropped for an index, but none is added.  Earlier Runs may   *)
(* have left no rows to put aside: that is the end.                          *)
Begin ==
  /\ phase = "idle" /\ phase' \in {"idle", "over"}
  /\ begun' = begun + 1
  /\ Len(asked') <= Len(asked) /\ ToSet(asked') \subseteq ToSet(asked)
  /\ answer' = NoAnswer
  /\ UNCHANGED <<input, aside, service>>

PutAside ==
  /\ phase = "idle"
  /\ aside \subseteq aside' /\ aside' \subseteq DOMAIN rowKey
  /\ UNCHANGED <<input, asked, phase, begun, service, answer>>

(* An index is built of rows that were not put aside: all of them the first    *)
(* time, and always those that it is sure about and will be asked for.       *)
StartServing ==
  /\ phase = "idle" /\ phase' = "serving"
  /\ sure' # {} =>
       /\ stored' \cap aside = {}
       /\ begun = 1 => stored' \cup aside = DOMAIN rowKey
  /\ \A key \in sure' \cap ToSet(asked) : RowsOf(key) \subseteq stored'
  /\ UNCHANGED progress
  /\ UNCHANGED <<input, asked, begun, aside, answer>>

Answers(key) ==
  IF key \in sure THEN {RowsOf(key) \cap stored} ELSE SUBSET RowsOf(key)

Answer(key) == \E rows \in Answers(key) : answer' = [key |-> key, rows |-> rows]

Request == asked[done + 1]

Read ==
  /\ phase = "serving" /\ done < Len(asked)
  /\ Answer(Request)
  /\ done' = done + 1
  /\ UNCHANGED <<input, asked, phase, begun, aside, stored, sure, times>>

Write ==
  /\ phase = "serving" /\ done < Len(asked)
  /\ \E row \in aside :
       /\ aside' = aside \ {row}
       /\ sure # {} => stored' = stored \cup {row}
  /\ done' = done + 1
  /\ UNCHANGED <<input, asked, phase, begun, sure, times, answer>>

(* Only once all requests have been served is a repetition over, and only     *)
(* once all repetitions are, the service.                                   *)
NextRepetition ==
  /\ phase = "serving" /\ done = Len(asked) /\ times < repeats
  /\ done' = 0 /\ times' = times + 1
  /\ UNCHANGED <<input, asked, phase, begun, aside, stored, sure, answer>>

Leave(to) ==
  /\ phase' = to
  /\ OutOfService'
  /\ UNCHANGED <<input, asked, begun, aside, answer>>

Complete == phase = "serving" /\ done = 0 /\ times = repeats /\ Leave("idle")

(* A check of the answers finds fault with one: either it is not sure, or it    *)
(* was asked for a key that is not there.  The requests that follow are served *)
(* in disorder, and the results thrown away.                                *)
Spoil ==
  /\ phase = "serving" /\ done < Len(asked)
  /\ Request \in sure => RowsOf(Request) = {}
  /\ Answer(Request)
  /\ phase' = "spoilt" /\ done' = 0
  /\ UNCHANGED <<input, asked, begun, aside, stored, sure, times>>

ReadSpoilt ==
  /\ phase = "spoilt"
  /\ \E key \in ToSet(asked) : Answer(key)
  /\ UNCHANGED <<input, asked, phase, begun, aside, service>>

GiveUp == phase = "spoilt" /\ Leave("idle")

End == phase # "over" /\ Leave("over")

Next ==
  \/ Begin \/ PutAside \/ StartServing
  \/ Read \/ Write \/ NextRepetition \/ Complete
  \/ Spoil \/ ReadSpoilt \/ GiveUp \/ End

Spec == Init /\ [][Next]_vars
=============================================================================
