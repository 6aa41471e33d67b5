---------------------------- MODULE MCCachePool ----------------------------
(* The pool and the handles built on it, for TLC.  A behaviour is about one
   of three layers: "ring" with one thread that acquires and one that
   releases, "handles" with two threads that copy, change and drop them, or
   "single", the pool of one thread. *)
EXTENDS CachePool, SharedHandles, SingleThreadPool, TLC

CONSTANTS t1, t2, h1, h2, h3, i1, i2, i3, i4, Layers

VARIABLE layer

JustT1 == {t1}
JustT2 == {t2}
Both == {t1, t2}

HandleOwner == (h1 :> t1) @@ (h2 :> t1) @@ (h3 :> t2)

\* The objects of a pool are alike, and the behaviours of the handles treat
\* them so.
Alike == Permutations(Items)

MCInit == Init /\ HandlesInit /\ SingleInit /\ layer \in Layers

MCNext ==
    \/ layer = "ring" /\ Next /\ UNCHANGED <<handle_vars, single_vars, layer>>
    \/ layer = "handles" /\ HandlesNext /\ UNCHANGED <<vars, single_vars, layer>>
    \/ layer = "single" /\ SingleNext /\ UNCHANGED <<vars, handle_vars, layer>>

MCSpec == MCInit /\ [][MCNext]_<<vars, handle_vars, single_vars, layer>>

\* Neither pool loses or doubles an object: that of many threads when no call
\* is under way, that of one thread always.
PoolsConserve == ConservedAtRest /\ LeaseKnown
=============================================================================
