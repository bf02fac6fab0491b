--------------------------- MODULE MetadataCache ----------------------------
(***************************************************************************)
(* What the metadata cache promises the file system: a map from node ids   *)
(* to metadata that answers from memory only with an entry at most MaxAge  *)
(* seconds old, asks the device otherwise, and forgets an id when told to. *)
(* How entries are kept, and when the expired ones go, is left open.       *)
(***************************************************************************)
EXTENDS Integers, Maps

CONSTANTS Ids,       \* node ids
          Values,    \* metadata of a node
          MaxAge,    \* seconds an entry may be answered from memory
          MaxFetch,  \* seconds a read of the device may take
          MaxTime    \* bound of the clock

VARIABLES truth,     \* the metadata on the device, by id
          changed,   \* when it last changed
          now,       \* time(0)
          held,      \* id -> [data, when]: what is kept in memory
          asked,     \* the miss being filled: who, since when, what was read
          answer     \* the last answer of getItem, and its age

env   == <<truth, changed, now>>
cvars == <<env, held, asked, answer>>

Idle   == [busy |-> FALSE]
Miss(id) == [busy |-> TRUE, id |-> id, since |-> now, read |-> {}]
NoAnswer == [age |-> 0]

Init == /\ truth \in [Ids -> Values] /\ changed = [i \in Ids |-> 0] /\ now = 0
        /\ held = EmptyMap /\ asked = Idle /\ answer = NoAnswer

Young(id) == id \in DOMAIN held /\ now - held[id].when <= MaxAge

(* Some of the entries that are too old are dropped, and no others.        *)
ForgetOld(h) == \E K \in SUBSET {i \in DOMAIN held : ~Young(i)} : h = Drop(held, K)

Hit(id) == /\ ~asked.busy /\ Young(id)
           /\ answer' = [id |-> id, data |-> held[id].data, age |-> now - held[id].when]
           /\ ForgetOld(held') /\ UNCHANGED <<env, asked>>

Ask(id) == /\ ~asked.busy /\ ~Young(id)
           /\ asked' = Miss(id)
           /\ ForgetOld(held') /\ UNCHANGED <<env, answer>>

Read == /\ asked.busy /\ asked.read = {}
        /\ asked' = [asked EXCEPT !.read = {truth[asked.id]}]
        /\ UNCHANGED <<env, held, answer>>

Fill == /\ asked.busy
        /\ \E v \in asked.read :
             /\ held' = Put(held, asked.id, [data |-> v, when |-> now])
             /\ answer' = [id |-> asked.id, data |-> v, age |-> 0]
        /\ asked' = Idle /\ UNCHANGED env

Clear(id) == /\ ~asked.busy
             /\ held' = Drop(held, {id}) /\ UNCHANGED <<env, asked, answer>>

(* The device changes, by a call of the file system or by itself.          *)
Change(id, v) == /\ truth' = [truth EXCEPT ![id] = v]
                 /\ changed' = [changed EXCEPT ![id] = now]
                 /\ UNCHANGED <<now, held, asked, answer>>

Tick == /\ now < MaxTime /\ now' = now + 1
        /\ asked.busy => now - asked.since < MaxFetch
        /\ UNCHANGED <<truth, changed, held, asked, answer>>

Next == \/ \E id \in Ids : Hit(id) \/ Ask(id) \/ Clear(id)
        \/ \E id \in Ids, v \in Values : Change(id, v)
        \/ Read \/ Fill \/ Tick

Spec == Init /\ [][Next]_cvars
=============================================================================
