---------------------------- MODULE DohObjects ----------------------------
(***************************************************************************)
(* Reference counting of DOH objects: the allocator with its pool and free *)
(* list (DOH/memory.c), DohDelete (DOH/base.c), and the references that    *)
(* lists, hash tables, source positions and meta data keep (DOH/list.c,    *)
(* DOH/hash.c).                                                            *)
(*                                                                         *)
(* Destroying a container deletes what it contains, one item after the     *)
(* other, which may destroy further containers: the recursion is a stack   *)
(* of frames.  A call that goes on after such a cascade is kept in "call". *)
(* How a hash table finds its nodes is the subject of DohHash; here it is  *)
(* a sequence of nodes.  Hash keys are interned strings.                   *)
(***************************************************************************)
EXTENDS Integers, Sequences, FiniteSets, SequencesExt

CONSTANTS
  PoolSize,   \* how many objects there is room for; CreatePool is not needed
  Keys,       \* the attribute names of hash tables
  MaxItems,   \* bound on the length of a container
  MaxHeld,    \* bound on the references a client has to one object
  MaxRefs     \* bound on the reference count of an object

ASSUME DohObjectsAssumption ==
  /\ PoolSize \in Nat \ {0}
  /\ 0 \notin Keys
  /\ MaxItems \in Nat
  /\ MaxHeld \in Nat
  /\ MaxRefs \in Nat

VARIABLES
  obj,       \* the objects of the pool
  FreeList,  \* the free list, its head first
  current,   \* how many objects of the pool have ever been allocated
  held,      \* how many references the client has to each object
  leaked,    \* history: references that destroyed objects have not given back
  stack,     \* the destructors that are running, the innermost last
  call       \* the call that goes on when they have ended

vars == <<obj, FreeList, current, held, leaked, stack, call>>

Cells  == 1 .. PoolSize
Null   == 0
NoCall == [op |-> "none", on |-> Null, pos |-> 0, val |-> Null]
Types  == {"String", "List", "Hash"}

\* A new object of type t with n references to it.
DohBase(t, n) == [type |-> t, refcount |-> n, intern |-> FALSE,
                  items |-> <<>>, file |-> Null, meta |-> Null]
Freed == DohBase("none", 0)

\* An item of a list, or a node of a hash table.
Node(k, o) == [key |-> k, val |-> o]

Init ==
  /\ obj = [c \in Cells |-> Freed]
  /\ FreeList = <<>>
  /\ current = 0
  /\ held = [c \in Cells |-> 0]
  /\ leaked = [c \in Cells |-> 0]
  /\ stack = <<>>
  /\ call = NoCall
-----------------------------------------------------------------------------
(* What the client can name: the objects it has references to, those that  *)
(* they refer to, and so on.                                                *)

\* S contains what its members refer to, where node "cut" does not count.
Closed(S, cut) ==
  \A c \in S :
    /\ {obj[c].file, obj[c].meta} \subseteq S \cup {Null}
    /\ \A i \in 1 .. Len(obj[c].items) : <<c, i>> = cut \/ obj[c].items[i].val \in S

Roots == {c \in Cells : held[c] > 0 \/ obj[c].intern}

\* What can be reached without node cut.
ReachWithout(cut) ==
  {c \in Cells : \A S \in SUBSET Cells : Roots \subseteq S /\ Closed(S, cut) => c \in S}

Reach == ReachWithout(<<Null, 0>>)

Idle == stack = <<>> /\ call = NoCall
-----------------------------------------------------------------------------
(* Allocation and deletion.                                                 *)

\* DohObjMalloc can hand out an object, and which.
CanMalloc == FreeList # <<>> \/ current < PoolSize
Malloc    == IF FreeList # <<>> THEN Head(FreeList) ELSE current + 1

\* Mutant: the object is not taken from the free list.
TakeStale ==
  /\ CanMalloc
  /\ FreeList' = FreeList
  /\ current' = IF FreeList # <<>> THEN current ELSE current + 1

\* DohObjMalloc takes the object.
Take ==
  /\ CanMalloc
  /\ FreeList' = IF FreeList # <<>> THEN Tail(FreeList) ELSE <<>>
  /\ current' = IF FreeList # <<>> THEN current ELSE current + 1

Incref(o, c) == IF c = Null THEN o ELSE [o EXCEPT ![c].refcount = @ + 1]

\* DohDelete(c): the count, and the destructor that runs at 0.
Decref(o, c) == IF c = Null \/ o[c].intern THEN o ELSE [o EXCEPT ![c].refcount = @ - 1]
Doomed(o, c) == c # Null /\ ~ o[c].intern /\ o[c].refcount <= 1
Frame(c, m)  == [on |-> c, at |-> 1, mode |-> m]

\* Delete(c), in the state where the objects are o and the destructors s.
Delete(o, s, c) ==
  /\ obj' = Decref(o, c)
  /\ stack' = IF Doomed(o, c) THEN Append(s, Frame(c, "del")) ELSE s

Top == stack[Len(stack)]

\* Mutant: the loop goes on only when the item was destroyed.
DeleteItemAgain ==
  LET item == obj[Top.on].items[Top.at].val
  IN  /\ stack # <<>>
      /\ Top.at <= Len(obj[Top.on].items)
      /\ Delete(obj, [stack EXCEPT ![Len(stack)].at = IF Doomed(obj, item) THEN @ + 1 ELSE @], item)
      /\ UNCHANGED <<FreeList, current, held, leaked, call>>

\* DelList, DelHash, List_clear, Hash_clear: the next item is deleted.
DeleteItem ==
  /\ stack # <<>>
  /\ Top.at <= Len(obj[Top.on].items)
  /\ Delete(obj, [stack EXCEPT ![Len(stack)].at = @ + 1], obj[Top.on].items[Top.at].val)
  /\ UNCHANGED <<FreeList, current, held, leaked, call>>

\* DohObjFree: the object goes to the free list, and its meta data is deleted.  No
\* destructor deletes the file of the object's position.
ObjFree ==
  /\ stack # <<>>
  /\ Top.mode = "del"
  /\ Top.at > Len(obj[Top.on].items)
  /\ FreeList' = <<Top.on>> \o FreeList
  /\ leaked' = IF obj[Top.on].file = Null THEN leaked
               ELSE [leaked EXCEPT ![obj[Top.on].file] = @ + 1]
  /\ Delete([obj EXCEPT ![Top.on] = Freed], Front(stack), obj[Top.on].meta)
  /\ UNCHANGED <<current, held, call>>

\* List_clear and Hash_clear: nitems = 0.
Cleared ==
  /\ stack # <<>>
  /\ Top.mode = "clear"
  /\ Top.at > Len(obj[Top.on].items)
  /\ obj' = [obj EXCEPT ![Top.on].items = <<>>]
  /\ stack' = Front(stack)
  /\ UNCHANGED <<FreeList, current, held, leaked, call>>
-----------------------------------------------------------------------------
(* The client's calls, on objects that it can reach.                        *)

\* NewString, NewList, NewHash.
New(t) ==
  /\ Take
  /\ obj' = [obj EXCEPT ![Malloc] = DohBase(t, 1)]
  /\ held' = [held EXCEPT ![Malloc] = 1]
  /\ UNCHANGED <<leaked, stack, call>>

\* find_key: a new attribute name becomes a string that is never destroyed.
InternKey ==
  /\ Take
  /\ obj' = [obj EXCEPT ![Malloc] = [DohBase("String", 1) EXCEPT !.intern = TRUE]]
  /\ UNCHANGED <<held, leaked, stack, call>>

\* DohIncref by the client.
DohIncref(c) ==
  /\ held[c] < MaxHeld /\ obj[c].refcount < MaxRefs
  /\ obj' = Incref(obj, c)
  /\ held' = [held EXCEPT ![c] = @ + 1]
  /\ UNCHANGED <<FreeList, current, leaked, stack, call>>

\* The client deletes one of its references.
DohDelete(c) ==
  /\ held[c] > 0
  /\ held' = [held EXCEPT ![c] = @ - 1]
  /\ Delete(obj, <<>>, c)
  /\ UNCHANGED <<FreeList, current, leaked, call>>

IsList(c) == obj[c].type = "List"
IsHash(c) == obj[c].type = "Hash"
HasRoom(c) == Len(obj[c].items) < MaxItems

Insert(s, pos, n) == SubSeq(s, 1, pos - 1) \o <<n>> \o SubSeq(s, pos, Len(s))

\* List_insert of an object, which the client need not own.
ListInsert(l, c) ==
  /\ IsList(l) /\ HasRoom(l)
  /\ obj[c].refcount < MaxRefs
  /\ \E pos \in 1 .. Len(obj[l].items) + 1 :
       obj' = Incref([obj EXCEPT ![l].items = Insert(@, pos, Node(0, c))], c)
  /\ UNCHANGED <<FreeList, current, held, leaked, stack, call>>

\* List_insert of a char *: the new string belongs to the list only.
ListInsertChars(l) ==
  /\ IsList(l) /\ HasRoom(l)
  /\ Take
  /\ obj' = [obj EXCEPT ![Malloc] = DohBase("String", 1),
                        ![l].items = Append(@, Node(0, Malloc))]
  /\ UNCHANGED <<held, leaked, stack, call>>

\* List_remove deletes the item and then closes the gap.
ListRemove(l, pos) ==
  /\ IsList(l) /\ pos <= Len(obj[l].items)
  /\ call' = [op |-> "remove", on |-> l, pos |-> pos, val |-> Null]
  /\ Delete(obj, <<>>, obj[l].items[pos].val)
  /\ UNCHANGED <<FreeList, current, held, leaked>>

\* List_set deletes the old item first.  It ends with Delete(val), so that the
\* client's reference becomes the list's: all callers pass a reference of their own.
ListSet(l, pos, c) ==
  /\ IsList(l) /\ pos <= Len(obj[l].items)
  /\ held[c] > 0
  /\ call' = [op |-> "set", on |-> l, pos |-> pos, val |-> c]
  /\ Delete(obj, <<>>, obj[l].items[pos].val)
  /\ UNCHANGED <<FreeList, current, held, leaked>>

Position(h, k) == {i \in 1 .. Len(obj[h].items) : obj[h].items[i].key = k}

\* Hash_setattr of an attribute that is not there: NewNode.
SetattrNew(h, k, c) ==
  /\ IsHash(h) /\ HasRoom(h) /\ Position(h, k) = {}
  /\ obj[c].refcount < MaxRefs
  /\ obj' = Incref([obj EXCEPT ![h].items = Append(@, Node(k, c))], c)
  /\ UNCHANGED <<FreeList, current, held, leaked, stack, call>>

\* Hash_setattr with a char * value.
SetattrChars(h, k) ==
  /\ IsHash(h) /\ HasRoom(h) /\ Position(h, k) = {}
  /\ Take
  /\ obj' = [obj EXCEPT ![Malloc] = DohBase("String", 1),
                        ![h].items = Append(@, Node(k, Malloc))]
  /\ UNCHANGED <<held, leaked, stack, call>>

\* Hash_setattr of an attribute that is there: the old value is deleted before the
\* new one is referenced.  The new value must not depend on the old one.
SetattrOld(h, k, c) ==
  /\ IsHash(h)
  /\ \E i \in Position(h, k) :
       /\ c # obj[h].items[i].val
       /\ c \in ReachWithout(<<h, i>>) /\ obj[c].refcount < MaxRefs
       /\ call' = [op |-> "attr", on |-> h, pos |-> i, val |-> c]
       /\ Delete(obj, <<>>, obj[h].items[i].val)
  /\ UNCHANGED <<FreeList, current, held, leaked>>

\* The same with a char * value: the new string has no reference yet.
SetattrOldChars(h, k) ==
  /\ IsHash(h)
  /\ Take
  /\ \E i \in Position(h, k) :
       /\ call' = [op |-> "attr", on |-> h, pos |-> i, val |-> Malloc]
       /\ Delete([obj EXCEPT ![Malloc] = DohBase("String", 0)], <<>>, obj[h].items[i].val)
  /\ UNCHANGED <<held, leaked>>

\* Mutant: the node is deleted but stays in the table.
DelattrLinked(h, k) ==
  /\ IsHash(h)
  /\ \E i \in Position(h, k) : Delete(obj, <<>>, obj[h].items[i].val)
  /\ UNCHANGED <<FreeList, current, held, leaked, call>>

\* Hash_delattr: the node is taken out of the table, then DelNode.
Delattr(h, k) ==
  /\ IsHash(h)
  /\ \E i \in Position(h, k) :
       Delete([obj EXCEPT ![h].items = RemoveAt(@, i)], <<>>, obj[h].items[i].val)
  /\ UNCHANGED <<FreeList, current, held, leaked, call>>

\* DohSetmeta: the first call makes the hash table; the others are Hash_setattr.
Setmeta(c, k, v) ==
  /\ obj[c].meta = Null
  /\ obj[v].refcount < MaxRefs
  /\ MaxItems > 0
  /\ Take
  /\ obj' = Incref([obj EXCEPT ![Malloc] = [DohBase("Hash", 1) EXCEPT !.items = <<Node(k, v)>>],
                               ![c].meta = Malloc], v)
  /\ UNCHANGED <<held, leaked, stack, call>>

\* DohClear of a list or a hash table.
DohClear(c) ==
  /\ IsList(c) \/ IsHash(c)
  /\ stack' = <<Frame(c, "clear")>>
  /\ UNCHANGED <<obj, FreeList, current, held, leaked, call>>

\* Setfile: the new file is referenced before the old one is deleted.
Setfile(c, f) ==
  /\ obj[f].type = "String" /\ obj[f].refcount < MaxRefs
  /\ call' = [op |-> "file", on |-> c, pos |-> 0, val |-> f]
  /\ Delete(Incref(obj, f), <<>>, obj[c].file)
  /\ UNCHANGED <<FreeList, current, held, leaked>>

\* Setfile with a char *.
SetfileChars(c) ==
  /\ Take
  /\ call' = [op |-> "file", on |-> c, pos |-> 0, val |-> Malloc]
  /\ Delete([obj EXCEPT ![Malloc] = DohBase("String", 1)], <<>>, obj[c].file)
  /\ UNCHANGED <<held, leaked>>

\* How many of the items of c are object d.
Occurs(c, d) == Cardinality({i \in 1 .. Len(obj[c].items) : obj[c].items[i].val = d})

\* Mutant: the items of a copy are not referenced.
DohCopyBare(c) ==
  /\ obj[c].meta = Null
  /\ Take
  /\ obj' = [obj EXCEPT ![Malloc] = [obj[c] EXCEPT !.refcount = 1, !.intern = FALSE]]
  /\ held' = [held EXCEPT ![Malloc] = 1]
  /\ UNCHANGED <<leaked, stack, call>>

\* DohCopy of an object without meta data: a copy shares the items and the file.
DohCopy(c) ==
  /\ obj[c].meta = Null
  /\ Take
  /\ LET more(d) == Occurs(c, d) + IF obj[c].file = d THEN 1 ELSE 0
     IN  /\ \A d \in Cells : obj[d].refcount + more(d) <= MaxRefs
         /\ obj' = [d \in Cells |->
                      IF d = Malloc THEN [obj[c] EXCEPT !.refcount = 1, !.intern = FALSE]
                      ELSE [obj[d] EXCEPT !.refcount = @ + more(d)]]
  /\ held' = [held EXCEPT ![Malloc] = 1]
  /\ UNCHANGED <<leaked, stack, call>>

\* The rest of List_remove, List_set, Hash_setattr or Setfile.
Return ==
  /\ stack = <<>>
  /\ call # NoCall
  /\ obj' = CASE call.op = "remove" -> [obj EXCEPT ![call.on].items = RemoveAt(@, call.pos)]
              [] call.op = "set"    -> [obj EXCEPT ![call.on].items[call.pos].val = call.val]
              [] call.op = "attr"   -> Incref([obj EXCEPT ![call.on].items[call.pos].val = call.val], call.val)
              [] call.op = "file"   -> [obj EXCEPT ![call.on].file = call.val]
  /\ held' = IF call.op = "set" THEN [held EXCEPT ![call.val] = @ - 1] ELSE held
  /\ call' = NoCall
  /\ UNCHANGED <<FreeList, current, leaked, stack>>

\* The steps of the call in progress.
Step == DeleteItem \/ ObjFree \/ Cleared \/ Return

\* The calls of the client, on objects that it can reach.
Client ==
  \/ InternKey
  \/ \E t \in Types : New(t)
  \/ \E c \in Reach :
       \/ DohIncref(c) \/ DohDelete(c) \/ DohClear(c) \/ DohCopy(c)
       \/ ListInsertChars(c) \/ SetfileChars(c)
       \/ \E pos \in 1 .. MaxItems : ListRemove(c, pos)
       \/ \E k \in Keys : SetattrChars(c, k) \/ SetattrOldChars(c, k) \/ Delattr(c, k)
  \/ \E c, d \in Reach :
       \/ ListInsert(c, d) \/ Setfile(c, d)
       \/ \E pos \in 1 .. MaxItems : ListSet(c, pos, d)
       \/ \E k \in Keys : SetattrNew(c, k, d) \/ SetattrOld(c, k, d) \/ Setmeta(c, k, d)

Next == Step \/ (Idle /\ Client)

\* A call that has begun goes on.
Spec == Init /\ [][Next]_vars /\ WF_vars(Step)
-----------------------------------------------------------------------------
\* Node i of container c has been given up by a call that is still running.
GivenUp(c, i) ==
  \/ \E f \in 1 .. Len(stack) : stack[f].on = c /\ i < stack[f].at
  \/ call.op \in {"remove", "set", "attr"} /\ call.on = c /\ call.pos = i

\* The references to d that objects keep.
ItemsTo(c, d) == {i \in 1 .. Len(obj[c].items) : obj[c].items[i].val = d /\ ~ GivenUp(c, i)}
NodesTo(d) == {n \in Cells \X (1 .. MaxItems) : n[2] \in ItemsTo(n[1], d)}
FilesTo(d) == {c \in Cells : obj[c].file = d /\ ~ (call.op = "file" /\ call.on = c)}
MetaTo(d)  == {c \in Cells : obj[c].meta = d}

References(d) ==
  held[d] + Cardinality(NodesTo(d)) + Cardinality(FilesTo(d)) + Cardinality(MetaTo(d))
  + IF call.op = "file" /\ call.val = d THEN 1 ELSE 0

\* The count of an object is the number of references to it and of those that
\* destroyed objects have lost ("when an object is placed in a list or hash
\* table, its reference count is automatically increased", Doc/Devel/internals.html:349),
\* also in the middle of a destructor: the assertion of DohDelete never fails.
CountsExact ==
  \A d \in Cells : ~ obj[d].intern => obj[d].refcount = References(d) + leaked[d]

\* Nothing refers to an object that has been destroyed, or that is being destroyed:
\* no container, no client and not the call in progress.
NoDangling ==
  LET gone == {c \in Cells : obj[c].type = "none"}
              \cup {stack[i].on : i \in {j \in 1 .. Len(stack) : stack[j].mode = "del"}}
  IN  /\ \A d \in gone : References(d) = 0
      /\ call.on \notin gone /\ call.val \notin gone

\* The free list holds every destroyed object once, so that DohObjMalloc never
\* hands out an object that is in use, nor one object twice.
FreeListExact ==
  /\ Cardinality(ToSet(FreeList)) = Len(FreeList)
  /\ ToSet(FreeList) = {c \in 1 .. current : obj[c].type = "none"}

\* The destructors end, however lists and hash tables are nested or refer to each
\* other, and with them the call.
CallsEnd == ~ Idle ~> Idle
=============================================================================
