---------------------------- MODULE RankingList ----------------------------
(***************************************************************************)
(* A ranking list of the RPC server: CommonRankingList (ranking_list.go)   *)
(* with its map, its skip list and its pool of item objects, the copy in   *)
(* Redis it is rebuilt from, and the handlers UpdateCharm and RankDelete   *)
(* (rpc_processor.go) that the game servers call when the value of a key   *)
(* (a player's charm, a cat's ouqi) changes or the key is gone for good.   *)
(*                                                                         *)
(* The skip list appears as the sequence of its bottom layer; Skiplist     *)
(* models the rest of it.  Item objects are told apart because the code    *)
(* reuses and overwrites them.  Every call has a goroutine of its own, and *)
(* several may be about one key: the requests of a player are not          *)
(* serialised, and any player can call for the zaned of another.  The      *)
(* announcement of a new first place is left out, the two GetByRank(1)     *)
(* made for it are not.                                                    *)
(***************************************************************************)
EXTENDS Integers, Sequences, SequencesExt

CONSTANTS Keys,     \* ranked keys, integers
          Vals,     \* the values a key can have
          Zeros,    \* those for which the handler deletes: {0} in the list of
                    \* the charm, none in the others
          Objects,  \* item objects (bound)
          Handlers, \* goroutines that serve calls (bound)
          Removals, \* are keys removed for good (cats), or never (players)?
          None,
          Gone      \* what a call reports of a key that is removed for good

ASSUME RankingListAssumption ==
  /\ Keys \subseteq Int
  /\ Vals \subseteq Nat /\ Zeros \subseteq Vals
  /\ Removals \in BOOLEAN
  /\ None \notin Objects /\ {None, Gone} \cap Int = {} /\ None # Gone

VARIABLES
  call,      \* handler -> where it is, the key and the value of its call, and
             \* whether no other call of the key has been under way with it
  key2item,  \* key -> item object, or None
  item,      \* object -> its fields
  list,      \* ranking_items: the objects from the first rank to the last
  pool,      \* items_pool
  redis,     \* key -> the value in the Redis hash, or None
  loading,   \* keys of the hash that a new process has not loaded yet
  \* history variables, read by the properties only
  told,      \* key -> what the last call of the key has reported, once it has
             \* succeeded and if no other call of the key overlapped it
  dropped,   \* keys whose item was deleted
  stale      \* a call has used the map's entry of such a key after the pool
             \* handed its object out again

vars == <<call, key2item, item, list, pool, redis, loading, told, dropped, stale>>

Item == [key : Keys, val : Vals] \cup {None}
Idle == [at |-> "none", key |-> None, val |-> None, alone |-> TRUE]
Steps == {"first", "apply", "post", "announce"}
Calls == [at : Steps, key : Keys, val : Vals \cup {Gone}, alone : BOOLEAN]

TypeOK ==
  /\ call \in [Handlers -> Calls \cup {Idle}]
  /\ key2item \in [Keys -> Objects \cup {None}]
  /\ item \in [Objects -> Item]
  /\ list \in Seq(Objects)
  /\ pool \subseteq Objects
  /\ redis \in [Keys -> Vals \cup {None}]
  /\ loading \subseteq Keys
  /\ told \in [Keys -> Vals \cup {None, Gone}]
  /\ dropped \subseteq Keys
  /\ stale \in BOOLEAN

Init ==
  /\ call = [h \in Handlers |-> Idle]
  /\ key2item = [k \in Keys |-> None]
  /\ item = [o \in Objects |-> None]
  /\ list = <<>>
  /\ pool = {}
  /\ redis = [k \in Keys |-> None]
  /\ loading = {}
  /\ told = [k \in Keys |-> None]
  /\ dropped = {}
  /\ stale = FALSE

-----------------------------------------------------------------------------
(* The skip list: every search goes by Greater, on the fields the objects  *)
(* hold at that moment.                                                    *)

Greater(x, y) == \/ x.val > y.val
                 \/ x.val = y.val /\ x.key > y.key

\* Where a search for the fields x ends: the first place that is not greater.
Place(l, f, x) ==
  LET stop == {i \in 1 .. Len(l) : ~Greater(f[l[i]], x)}
  IN IF stop = {} THEN Len(l) + 1 ELSE CHOOSE i \in stop : \A j \in stop : i <= j

\* GetNode: the place of the fields x, if a node with their key is there.
Found(l, f, x) == Place(l, f, x) <= Len(l) /\ f[l[Place(l, f, x)]].key = x.key

WithItem(l, f, o) == InsertAt(l, Place(l, f, f[o]), o)

Referenced == {key2item[k] : k \in Keys} \cup {list[i] : i \in 1 .. Len(list)}

\* What items_pool.Get can return: an object put back, or a new one.
Obtainable == pool \cup {o \in Objects \ Referenced : item[o] = None}

-----------------------------------------------------------------------------
(* The calls of the game servers. *)

At(h, step) == call[h].at = step
Key(h) == call[h].key
Val(h) == call[h].val
Goto(h, step) == call' = [call EXCEPT ![h].at = step]
Done(h) == call' = [call EXCEPT ![h] = Idle]

Calling(k) == {h \in Handlers : call[h] # Idle /\ Key(h) = k}

\* The map still names an object for the key k, which the pool has handed out again.
HandedOut(k) == k \in dropped /\ key2item[k] \notin pool

\* A game server reports that the value of a key is v now, or that the key is gone.
\* Values of one key can arrive in any order: the row is unlocked before the call.
Report(h, k, v) ==
  /\ call[h] = Idle
  /\ v = Gone => Removals
  /\ call' = [g \in Handlers |->
       IF g = h THEN [at |-> "first", key |-> k, val |-> v, alone |-> Calling(k) = {}]
       ELSE IF g \in Calling(k) THEN [call[g] EXCEPT !.alone = FALSE]
       ELSE call[g]]
  /\ told' = [told EXCEPT ![k] = None]
  /\ UNCHANGED <<key2item, item, list, pool, redis, loading, dropped, stale>>

\* GetByRank(1) copies the first item into an object of the pool, which the
\* handlers never put back.
CopyFirst ==
  \/ UNCHANGED <<item, pool>>
  \/ \E o \in pool : /\ list # <<>>
                     /\ pool' = pool \ {o}
                     /\ item' = [item EXCEPT ![o] = item[list[1]]]

ReadFirst(h) ==
  /\ At(h, "first")
  /\ CopyFirst
  /\ Goto(h, "apply")
  /\ UNCHANGED <<key2item, list, redis, loading, told, dropped, stale>>

\* Update of a key the list has not seen.
AddItem(k, v) ==
  /\ key2item[k] = None
  /\ \E o \in Obtainable :
       LET f == [item EXCEPT ![o] = [key |-> k, val |-> v]] IN
       /\ item' = f
       /\ list' = WithItem(list, f, o)
       /\ key2item' = [key2item EXCEPT ![k] = o]
       /\ pool' = pool \ {o}

UpdateNew(h) ==
  /\ At(h, "apply")
  /\ Val(h) \notin Zeros \cup {Gone}
  /\ AddItem(Key(h), Val(h))
  /\ Goto(h, "post")
  /\ UNCHANGED <<redis, loading, told, dropped, stale>>

\* A mutant: the item is overwritten first and its node searched afterwards.
AssignThenMove(o, x) ==
  LET f == [item EXCEPT ![o] = x]
  IN /\ item' = f
     /\ list' = IF Found(list, f, x)
                  THEN WithItem(RemoveAt(list, Place(list, f, x)), f, o)
                  ELSE list

\* delete the node of the old fields, Assign the new ones, insert.
Move(o, x) ==
  LET f == [item EXCEPT ![o] = x]
  IN /\ item' = f
     /\ list' = WithItem(RemoveAt(list, Place(list, item, item[o])), f, o)

\* Update of a key of the map; it fails when the delete in it finds no node.
UpdateOld(h) ==
  LET o == key2item[Key(h)] IN
  /\ At(h, "apply")
  /\ Val(h) \notin Zeros \cup {Gone}
  /\ o # None
  /\ IF Found(list, item, item[o])
       THEN Move(o, [key |-> Key(h), val |-> Val(h)]) /\ Goto(h, "post")
       ELSE Done(h) /\ UNCHANGED <<item, list>>
  /\ stale' = (stale \/ HandedOut(Key(h)))
  /\ UNCHANGED <<key2item, pool, redis, loading, told, dropped>>

\* A mutant: the object is put back and its node stays in the list.
PutBackListed(o) == /\ pool' = pool \cup {o}
                    /\ UNCHANGED list

\* The node is removed and the object put back; key2item keeps the key.
Unlist(o) == /\ list' = RemoveAt(list, Place(list, item, item[o]))
             /\ pool' = pool \cup {o}

\* Delete: for a value of 0, and in RankDelete.  When it fails that is logged.
DeleteKey(h) ==
  LET o == key2item[Key(h)] IN
  /\ At(h, "apply")
  /\ Val(h) \in Zeros \cup {Gone}
  /\ IF o # None /\ Found(list, item, item[o])
       THEN Unlist(o) /\ dropped' = dropped \cup {Key(h)}
       ELSE UNCHANGED <<list, pool, dropped>>
  /\ stale' = (stale \/ HandedOut(Key(h)))
  /\ Goto(h, "post")
  /\ UNCHANGED <<key2item, item, redis, loading, told>>

\* A mutant: the handler forgets to write Redis.
Unstored(k, v) == redis

\* A mutant: HSET also for a key that is gone.
StoredAlways(k, v) == [redis EXCEPT ![k] = v]

\* HSET, also of a 0; HDEL of a key that is gone.  No lock of the list is held.
Stored(k, v) == [redis EXCEPT ![k] = IF v = Gone THEN None ELSE v]

Post(h) ==
  /\ At(h, "post")
  /\ redis' = Stored(Key(h), Val(h))
  /\ Goto(h, "announce")
  /\ UNCHANGED <<key2item, item, list, pool, loading, told, dropped, stale>>

\* GetByRank(1) again for the announcement, and the answer.
Announce(h) ==
  /\ At(h, "announce")
  /\ CopyFirst
  /\ Done(h)
  /\ told' = IF call[h].alone THEN [told EXCEPT ![Key(h)] = Val(h)] ELSE told
  /\ UNCHANGED <<key2item, list, redis, loading, dropped, stale>>

\* The RPC server dies and starts again: the calls in progress fail.
Restart ==
  /\ key2item' = [k \in Keys |-> None]
  /\ item' = [o \in Objects |-> None]
  /\ list' = <<>>
  /\ pool' = {}
  /\ call' = [h \in Handlers |-> Idle]
  /\ loading' = {k \in Keys : redis[k] # None}
  /\ dropped' = {}
  /\ stale' = FALSE
  /\ UNCHANGED <<redis, told>>

\* It loads the hash with Update, a key at a time in the order of a Go map.
\* It listens already but serves no call before the last one: see Serve.
Load(k) ==
  /\ k \in loading
  /\ AddItem(k, redis[k])
  /\ loading' = loading \ {k}
  /\ UNCHANGED <<call, redis, told, dropped, stale>>

Serve(h) == /\ loading = {}
            /\ \/ ReadFirst(h)
               \/ UpdateNew(h) \/ UpdateOld(h) \/ DeleteKey(h)
               \/ Post(h)
               \/ Announce(h)

Next == \/ \E h \in Handlers : \/ Serve(h)
                               \/ \E k \in Keys, v \in Vals \cup {Gone} : Report(h, k, v)
        \/ \E k \in Keys : Load(k)
        \/ Restart

Spec == Init /\ [][Next]_vars

-----------------------------------------------------------------------------
(* Properties. *)

Places(k) == {i \in 1 .. Len(list) : list[i] = key2item[k]}

Ranked(k, v) == \E i \in 1 .. Len(list) : item[list[i]] = [key |-> k, val |-> v]
Unranked(k) == \A i \in 1 .. Len(list) : item[list[i]].key # k

\* The list is strictly sorted, and holds each key that was not deleted once, although
\* objects are overwritten in place and pass through the pool, and whatever calls run at
\* once.  Only the entry that delete leaves in key2item can break it, once the pool has
\* handed its object out again.
SortedOnce ==
  ~ stale =>
    /\ \A i, j \in 1 .. Len(list) : i < j => Greater(item[list[i]], item[list[j]])
    /\ \A k \in Keys : key2item[k] # None /\ k \notin dropped =>
         Cardinality(Places(k)) = 1 /\ item[key2item[k]].key = k

\* What a call has reported that succeeded, and that no other call of the key overlapped,
\* stays stored until the next call of the key, and is ranked as soon as a server that
\* started again has loaded it: other keys' calls, restarts and calls of the key that
\* overlapped before it do not matter.  A key reported gone is in neither.
AckedIsRanked ==
  \A k \in Keys :
    /\ told[k] \in Vals \ Zeros =>
         /\ redis[k] = told[k]
         /\ ~ stale /\ k \notin loading => Ranked(k, told[k])
    /\ told[k] = Gone => /\ redis[k] = None
                         /\ ~ stale => Unranked(k)

\* Nothing that is in the list can be handed out by the pool, unless a call has used such
\* an entry of key2item.
PooledIsUnlisted == ~ stale => \A i \in 1 .. Len(list) : list[i] \notin pool

\* The same with no exception for the stale entries: a value other than 0 whose call has
\* succeeded is ranked, also when keys fall to 0, leave the list and come back.
SucceededIsRanked ==
  \A k \in Keys : told[k] \in Vals \ Zeros /\ loading = {} => Ranked(k, told[k])
=============================================================================
