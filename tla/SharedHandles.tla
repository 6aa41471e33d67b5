--------------------------- MODULE SharedHandles ---------------------------
(***************************************************************************)
(* The reference counted handles that are built on the pools: Json (on     *)
(* JsonObject and JsonValue), ShareString (on StringReference) and the     *)
(* ObjectPointer of SharedCachePool.                                       *)
(*                                                                         *)
(* A JsonObject, a string and an object of a SharedCachePool are shared by *)
(* all copies of a handle and go back to their pool with the last one; a   *)
(* JsonValue belongs to one handle and is copied with it.  The Json fields *)
(* of a JsonObject are handles too, and are destroyed when the object goes *)
(* back.  Every fetch_add, fetch_sub and return to a pool is a step of its *)
(* own: todo is what a thread still has to do in the call it is in.  A     *)
(* JsonObject is back in its pool before refresh clears its containers.    *)
(*                                                                         *)
(* The engine keeps to three rules, which are guards here: a thread uses   *)
(* its own handles, it changes the fields of an object only while no other *)
(* thread can reach it, and no object is put into itself.                  *)
(*                                                                         *)
(* Two things that may happen nevertheless have no defined outcome, and    *)
(* the model stops there: an object is taken from its pool between its     *)
(* return and its refresh, or a handle is assigned a field of an object    *)
(* that its own release may destroy.                                       *)
(***************************************************************************)
EXTENDS Integers, Sequences, FiniteSets, FiniteSetsExt

CONSTANTS
    Users,      \* threads
    Handles,    \* variables of the threads
    Owner,      \* Owner[h]: the thread whose variable h is
    Items,      \* objects of the pools
    Fields,     \* names of fields, and indices of arrays
    Nothing     \* the null pointer

ASSUME HandlesAssumption ==
    /\ Owner \in [Handles -> Users] /\ Nothing \notin Items
    /\ IsFiniteSet(Handles) /\ IsFiniteSet(Items) /\ IsFiniteSet(Fields)

VARIABLES
    form,       \* "free" (in its pool), "object", "value" or "plain"
    count,      \* reference_count
    field,      \* m_object and m_array of a JsonObject
    value,      \* what a handle points to
    todo,       \* steps left of the call a thread is in
    published,  \* JsonObjects in their pool whose refresh is still to come
    undefined   \* history: the behaviour has no defined outcome

handle_vars == <<form, count, field, value, todo, published, undefined>>
lives == <<published, undefined>>

Counted(i) == form[i] \in {"object", "plain"}

HandlesInit ==
    /\ form = [i \in Items |-> "free"]
    /\ count = [i \in Items |-> 0]
    /\ field = [i \in Items |-> [k \in Fields |-> Nothing]]
    /\ value = [h \in Handles |-> Nothing]
    /\ todo = [u \in Users |-> << >>]
    /\ published = {} /\ undefined = FALSE

Inside(i) == {field[i][k] : k \in Fields} \ {Nothing}

(* What can be reached from a handle: trees have two levels here.          *)
Reaches(h) == IF value[h] = Nothing THEN {} ELSE {value[h]} \cup Inside(value[h])

(* Only the thread u can reach the object of its handle h.                 *)
Private(u, h) ==
    \A g \in Handles : Owner[g] # u => Reaches(g) \cap Reaches(h) = {}

-----------------------------------------------------------------------------
(* Steps of a call.                                                        *)

Drop(i)      == [op |-> "drop", item |-> i]
Free(i)      == [op |-> "free", item |-> i]
Take(h, i)   == [op |-> "take", item |-> i, handle |-> h]
Put(j, k, i) == [op |-> "put", item |-> i, into |-> j, key |-> k]

Drops(i) == IF i = Nothing THEN << >> ELSE << Drop(i) >>

Idle(u) == todo[u] = << >>

\* Mutant: the count is looked at after it was lowered.
RunDrop_Late(u) ==
    /\ todo[u] # << >> /\ Head(todo[u]).op = "drop"
    /\ LET i == Head(todo[u]).item
           lowered == "seen" \in DOMAIN Head(todo[u])
       IN  IF form[i] = "value" \/ lowered
           THEN /\ todo' = [todo EXCEPT ![u] =
                        (IF count[i] = 0 THEN << Free(i) >> ELSE << >>) \o Tail(@)]
                /\ UNCHANGED count
           ELSE /\ count' = [count EXCEPT ![i] = @ - 1]
                /\ todo' = [todo EXCEPT ![u] =
                        << [op |-> "drop", item |-> i, seen |-> TRUE] >> \o Tail(@)]
    /\ UNCHANGED <<form, field, value, lives>>

(* release: a value at once, a counted object when this was its last       *)
(* reference.                                                              *)
RunDrop(u) ==
    /\ todo[u] # << >> /\ Head(todo[u]).op = "drop"
    /\ LET i == Head(todo[u]).item
           last == form[i] = "value" \/ count[i] = 1
       IN  /\ count' = [count EXCEPT ![i] = IF Counted(i) THEN @ - 1 ELSE @]
           /\ todo' = [todo EXCEPT ![u] = (IF last THEN << Free(i) >> ELSE << >>) \o Tail(@)]
    /\ UNCHANGED <<form, field, value, lives>>

(* CachePool::release of a JsonObject: from here on any thread may take it. *)
RunPublish(u) ==
    /\ todo[u] # << >> /\ Head(todo[u]).op = "free"
    /\ form[Head(todo[u]).item] = "object" /\ Head(todo[u]).item \notin published
    /\ published' = published \cup {Head(todo[u]).item}
    /\ UNCHANGED <<form, count, field, value, todo, undefined>>

(* Its refresh clears the fields, each a handle, in the order in which the *)
(* containers keep them.  The others are refreshed before they go back, or *)
(* have nothing to refresh.                                                *)
RunFree(u) ==
    /\ todo[u] # << >> /\ Head(todo[u]).op = "free"
    /\ form[Head(todo[u]).item] = "object" => Head(todo[u]).item \in published
    /\ published' = published \ {Head(todo[u]).item}
    /\ LET i == Head(todo[u]).item
           held == {k \in Fields : field[i][k] # Nothing}
       IN  /\ form' = [form EXCEPT ![i] = "free"]
           /\ field' = [field EXCEPT ![i] = [k \in Fields |-> Nothing]]
           /\ \E order \in Bijection(1 .. Cardinality(held), held) :
                  todo' = [todo EXCEPT ![u] =
                      [n \in 1 .. Cardinality(held) |-> Drop(field[i][order[n]])] \o Tail(@)]
    /\ UNCHANGED <<count, value, undefined>>

(* acquire gives out an object whose refresh is still to come: two threads *)
(* then use the same containers.                                           *)
TakePublished(u) ==
    /\ Idle(u) /\ published # {} /\ undefined' = TRUE
    /\ UNCHANGED <<form, count, field, value, todo, published>>

(* get_copy: one reference more, or a copy of a value.                     *)
Copied(i, new) ==
    \/ /\ new = i /\ UNCHANGED form
       /\ i # Nothing => Counted(i)
       /\ count' = IF i = Nothing THEN count ELSE [count EXCEPT ![i] = @ + 1]
    \/ /\ i # Nothing /\ form[i] = "value"
       /\ new \in Items /\ form[new] = "free"
       /\ form' = [form EXCEPT ![new] = "value"]
       /\ UNCHANGED count

RunTake(u) ==
    /\ todo[u] # << >> /\ Head(todo[u]).op = "take"
    /\ \E new \in Items \cup {Nothing} :
          /\ Copied(Head(todo[u]).item, new)
          /\ value' = [value EXCEPT ![Head(todo[u]).handle] = new]
    /\ todo' = [todo EXCEPT ![u] = Tail(@)]
    /\ UNCHANGED <<field, lives>>

RunPut(u) ==
    /\ todo[u] # << >> /\ Head(todo[u]).op = "put"
    /\ \E new \in Items \cup {Nothing} :
          /\ Copied(Head(todo[u]).item, new)
          /\ field' = [field EXCEPT ![Head(todo[u]).into][Head(todo[u]).key] = new]
    /\ todo' = [todo EXCEPT ![u] = Tail(@)]
    /\ UNCHANGED <<value, lives>>

-----------------------------------------------------------------------------
(* Calls.                                                                  *)

(* acquire and init: an object of a SharedCachePool, a string, an object.  *)
Construct(u, h, i, f) ==
    /\ Idle(u) /\ Owner[h] = u /\ value[h] = Nothing /\ form[i] = "free"
    /\ form' = [form EXCEPT ![i] = f]
    /\ count' = [count EXCEPT ![i] = IF f = "value" THEN 0 ELSE 1]
    /\ value' = [value EXCEPT ![h] = i]
    /\ UNCHANGED <<field, todo, lives>>

(* A copy for a variable of the same thread, or for a task that another    *)
(* thread will run.                                                        *)
CopyConstruct(u, h, g) ==
    /\ Idle(u) /\ Owner[g] = u /\ value[h] = Nothing /\ Idle(Owner[h])
    /\ value[g] # Nothing /\ h # g
    /\ \E new \in Items : Copied(value[g], new) /\ value' = [value EXCEPT ![h] = new]
    /\ UNCHANGED <<field, todo, lives>>

(* operator=(const T&): the old object is released before the new one is   *)
(* copied.  The source is a handle or a field of an object that another    *)
(* variable of the thread keeps, h = h["a"] included.                      *)
CopyAssign(u, h, g) ==
    /\ Idle(u) /\ Owner[h] = u /\ Owner[g] = u /\ h # g
    /\ \E source \in {value[g]} \cup (IF value[g] = Nothing THEN {} ELSE Inside(value[g])) :
          todo' = [todo EXCEPT ![u] = Drops(value[h]) \o << Take(h, source) >>]
    /\ value' = [value EXCEPT ![h] = Nothing]
    /\ UNCHANGED <<form, count, field, lives>>

(* h = h["a"] where no other variable of the thread has the object: if the *)
(* release is the last one, refresh destroys the field that is then copied. *)
AssignOwnField(u, h) ==
    /\ Idle(u) /\ Owner[h] = u /\ value[h] # Nothing /\ Inside(value[h]) # {}
    /\ \A g \in Handles \ {h} : Owner[g] = u => value[g] # value[h]
    /\ undefined' = TRUE
    /\ UNCHANGED <<form, count, field, value, todo, published>>

(* operator=(T&&).                                                         *)
MoveAssign(u, h, g) ==
    /\ Idle(u) /\ Owner[h] = u /\ Owner[g] = u /\ h # g
    /\ todo' = [todo EXCEPT ![u] = Drops(value[h])]
    /\ value' = [value EXCEPT ![h] = value[g], ![g] = Nothing]
    /\ UNCHANGED <<form, count, field, lives>>

Destroy(u, h) ==
    /\ Idle(u) /\ Owner[h] = u /\ value[h] # Nothing
    /\ todo' = [todo EXCEPT ![u] = Drops(value[h])]
    /\ value' = [value EXCEPT ![h] = Nothing]
    /\ UNCHANGED <<form, count, field, lives>>

(* check_create_json_value and check_create_json_object: a Json of the     *)
(* other form releases what it has and takes a new one from its pool.      *)
Becomes(u, h, i, f) ==
    /\ Idle(u) /\ Owner[h] = u /\ value[h] # Nothing
    /\ form[value[h]] \in {"object", "value"} \ {f} /\ form[i] = "free"
    /\ todo' = [todo EXCEPT ![u] = Drops(value[h])]
    /\ form' = [form EXCEPT ![i] = f]
    /\ count' = [count EXCEPT ![i] = IF f = "value" THEN 0 ELSE 1]
    /\ value' = [value EXCEPT ![h] = i]
    /\ UNCHANGED <<field, lives>>

(* h[k] = g and push_back.  Bound: what is put into an object has no       *)
(* fields.                                                                 *)
SetField(u, h, k, g) ==
    /\ Idle(u) /\ Owner[h] = u /\ Owner[g] = u
    /\ value[h] # Nothing /\ form[value[h]] = "object" /\ Private(u, h)
    /\ value[g] # Nothing /\ value[h] # value[g] /\ form[value[g]] # "plain"
    /\ Inside(value[g]) = {} /\ \A j \in Items : value[h] \notin Inside(j)
    /\ todo' = [todo EXCEPT ![u] =
            Drops(field[value[h]][k]) \o << Put(value[h], k, value[g]) >>]
    /\ field' = [field EXCEPT ![value[h]][k] = Nothing]
    /\ UNCHANGED <<form, count, value, lives>>

(* remove_field.                                                           *)
RemoveField(u, h, k) ==
    /\ Idle(u) /\ Owner[h] = u /\ value[h] # Nothing
    /\ form[value[h]] = "object" /\ Private(u, h)
    /\ field[value[h]][k] # Nothing
    /\ todo' = [todo EXCEPT ![u] = Drops(field[value[h]][k])]
    /\ field' = [field EXCEPT ![value[h]][k] = Nothing]
    /\ UNCHANGED <<form, count, value, lives>>

(* deep_clone: a new object for each one that can be reached.              *)
DeepClone(u, h, g) ==
    /\ Idle(u) /\ Owner[h] = u /\ Owner[g] = u /\ value[h] = Nothing
    /\ value[g] # Nothing /\ form[value[g]] = "object"
    /\ \E i \in Items, new \in [Fields -> Items \cup {Nothing}] :
          LET old == field[value[g]]
              made == {new[k] : k \in Fields} \ {Nothing}
          IN  /\ \A k \in Fields : (new[k] = Nothing) = (old[k] = Nothing)
              /\ \A k, l \in Fields : new[k] = new[l] /\ new[k] # Nothing => k = l
              /\ \A j \in {i} \cup made : form[j] = "free"
              /\ i \notin made
              /\ form' = [j \in Items |->
                     IF j = i THEN "object"
                     ELSE IF j \in made THEN form[old[CHOOSE k \in Fields : new[k] = j]]
                     ELSE form[j]]
              /\ count' = [j \in Items |->
                     IF j \in {i} \cup made THEN (IF form'[j] = "value" THEN 0 ELSE 1) ELSE count[j]]
              /\ field' = [field EXCEPT ![i] = new]
              /\ value' = [value EXCEPT ![h] = i]
    /\ UNCHANGED <<todo, lives>>

Run(u) == \/ RunDrop(u) \/ RunPublish(u) \/ RunFree(u) \/ RunTake(u) \/ RunPut(u)
          \/ TakePublished(u)

HandlesNext ==
    \/ undefined /\ UNCHANGED handle_vars
    \/ ~undefined /\ \E u \in Users :
        \/ Run(u)
        \/ \E h \in Handles :
              \/ \E i \in Items :
                    \/ \E f \in {"object", "value", "plain"} : Construct(u, h, i, f)
                    \/ \E f \in {"object", "value"} : Becomes(u, h, i, f)
              \/ \E g \in Handles : \/ CopyConstruct(u, h, g) \/ CopyAssign(u, h, g)
                                    \/ MoveAssign(u, h, g) \/ DeepClone(u, h, g)
                                    \/ \E k \in Fields : SetField(u, h, k, g)
              \/ Destroy(u, h) \/ AssignOwnField(u, h)
              \/ \E k \in Fields : RemoveField(u, h, k)

-----------------------------------------------------------------------------
(* Properties *)

(* The handles and fields that point to an object.                         *)
References(i) ==
    Cardinality({h \in Handles : value[h] = i})
    + Cardinality({p \in Items \X Fields : field[p[1]][p[2]] = i})

(* No handle, no field and no step of a call leads to an object that is    *)
(* back in its pool, its refresh excepted: the last of several threads     *)
(* that let go of an object gives it back, after all the others.           *)
NoHandleDangles ==
    \A i \in Items : form[i] = "free" \/ i \in published =>
        /\ References(i) = 0
        /\ \A u \in Users : \A n \in DOMAIN todo[u] :
              todo[u][n].item = i => i \in published /\ todo[u][n] = Free(i)

(* Between calls a reference count is the number of handles and fields     *)
(* that share the object, a JsonValue has one owner, and every object that *)
(* is out of its pool can be reached from a variable: nothing leaks.       *)
CountsExact ==
    (\A u \in Users : Idle(u)) =>
        \A i \in Items :
            /\ Counted(i) => count[i] = References(i)
            /\ form[i] = "value" => References(i) = 1
            /\ form[i] # "free" => \E h \in Handles : i \in Reaches(h)

(* A shared object goes back to its pool exactly when nothing leads to it  *)
(* any more, whichever threads copy, assign and drop their handles: until  *)
(* a JsonObject is taken before its refresh has run (CachePool::release    *)
(* publishes it first), or a Json is assigned a field of the object it     *)
(* alone keeps in its thread.                                              *)
HandlesExact == NoHandleDangles /\ CountsExact
=============================================================================
