---------------------------- MODULE SymbolTable ----------------------------
(***************************************************************************)
(* The symbol table entry of one name of a class, from the parser to the   *)
(* code generator: Swig_symbol_add and Swig_symbol_remove                  *)
(* (src/Source/Swig/symbol.c), the merge of an earlier %extend block       *)
(* (src/Source/Swig/extend.c), and the two operations of the type pass     *)
(* that rewrite the list of overloaded functions: usingDeclaration         *)
(* (src/Source/Modules/typepass.cxx) and clean_overloaded                  *)
(* (src/Source/Modules/utils.cxx).                                         *)
(*                                                                         *)
(* All declarations have the same target language name; different names    *)
(* never meet in these operations.  A declaration is a function, a         *)
(* function template, a variable or a using declaration; a function's      *)
(* "decl" attribute (its parameter types) is one of Decls.  Declarations   *)
(* hidden from the target language never enter the list and are left out. *)
(*                                                                         *)
(* An overname is the tuple of the numbers in it: __SWIG_2 is <<2>>, and   *)
(* __SWIG_2_0 is <<2, 0>>; the name _SWIG_0 that usingDeclaration gives    *)
(* is <<-1>>.                                                              *)
(***************************************************************************)
EXTENDS Integers, FiniteSets, Sequences, SequencesExt

CONSTANTS
    Decls,       \* the parameter lists, a set of positive numbers
    Bases,       \* the usable methods of the base class: sequences of Decls
    MaxExtend,   \* bound: declarations of the %extend block before the class
    MaxMembers,  \* bound: declarations of the class
    MaxDecls     \* bound: all declarations, later %extend blocks included

ASSUME DeclsAssumption == Decls \subseteq Nat \ {0}

NoNode == 0
Kinds == {"cdecl", "template", "variable", "using"}
Scopes == {"extend", "class"}

VARIABLES
    phase,       \* "extend", "class", "merge", "later", "typepass", "done"
    node,        \* the parse tree nodes, in the order of their creation
    entry,       \* the table of each scope: the first node, or NoNode
    tree,        \* the declarations the type pass still has to visit
    block,       \* the declarations of the %extend block still to merge
    before,      \* history: the table of each declaration before the merge
    base,        \* the methods that "using Base::f" finds
    known,       \* FALSE: "Nothing known about 'Base::f'"
    cases        \* history: which of the cases below happened

symvars == <<phase, node, entry, tree, block, before, base, known, cases>>

(* What leaves sym:overloaded wrong, or a list with equal declarations:     *)
(* "using first", a using declaration first in the list; "lost", an %extend *)
(* definition that did not get into the table; "template replaces first", a *)
(* first of the list replaced by a template.                                *)

NewNode(k, d) ==
    [kind |-> k, decl |-> d, symtab |-> "none", error |-> FALSE,
     nextSibling |-> NoNode, previousSibling |-> NoNode,
     overloaded |-> NoNode, overname |-> <<>>]

(* The nodes from x on along a link, with x: the walk of every loop.       *)
Along(nodes, x, link) ==
    LET at[i \in 0 .. Len(nodes)] ==
            IF i = 0 THEN x
            ELSE IF at[i - 1] = NoNode THEN NoNode
            ELSE nodes[at[i - 1]][link]
        met == Cardinality({i \in 0 .. Len(nodes) : at[i] # NoNode})
    IN  [i \in 1 .. met |-> at[i - 1]]

ListFrom(nodes, x) == Along(nodes, x, "nextSibling")

-----------------------------------------------------------------------------
(* Swig_symbol_add.  A state st holds the nodes and the tables; the result *)
(* is the new state and the node the function returns.                     *)

(* The declarations differ enough to be overloads: not the same parameters,*)
(* or a function template beside a plain function.                         *)
SameDecl(a, b) ==
    /\ a.decl = b.decl
    /\ {a.kind, b.kind} # {"template", "cdecl"}

(* The two can stand in one table: functions that differ, or one is a using *)
(* declaration, which takes whatever functions its base class has.         *)
Apart(a, b) ==
    \/ "using" \in {a.kind, b.kind}
    \/ "variable" \notin {a.kind, b.kind} /\ ~SameDecl(a, b)

(* The node that a new declaration n conflicts with, or NoNode: c is the   *)
(* first of the list.  A using declaration, new or first, is not compared. *)
Conflict(nodes, c, n) ==
    LET list == ListFrom(nodes, c)
        same == {i \in 1 .. Len(list) : SameDecl(nodes[list[i]], nodes[n])}
    IN  IF "using" \in {nodes[c].kind, nodes[n].kind} THEN NoNode
        ELSE IF "variable" \in {nodes[c].kind, nodes[n].kind} THEN c
        ELSE IF same = {} THEN NoNode
        ELSE list[CHOOSE i \in same : \A j \in same : i <= j]

Swig_symbol_add(st, s, n) ==
    LET c == st.entry[s]
        list == ListFrom(st.node, c)
        last == Last(list)
        clash == Conflict(st.node, c, n)
    IN  IF c = NoNode
        THEN [node  |-> [st.node EXCEPT ![n].symtab = s,
                                        ![n].overname = <<0>>],
              entry |-> [st.entry EXCEPT ![s] = n],
              found |-> n]
        ELSE IF clash # NoNode
        THEN [node |-> st.node, entry |-> st.entry, found |-> clash]
        ELSE [node  |-> [i \in DOMAIN st.node |->
                            CASE i = n    -> [st.node[i] EXCEPT
                                                !.symtab = s,
                                                !.overname = <<Len(list)>>,
                                                !.previousSibling = last,
                                                !.overloaded = c]
                              [] i = last -> [st.node[i] EXCEPT
                                                !.nextSibling = n,
                                                !.overloaded = c]
                              [] OTHER    -> st.node[i]],
              entry |-> st.entry,
              found |-> n]

(* Takes x out of the list: the links of its neighbours and of x.          *)
Unlink(nodes, x) ==
    LET ps == nodes[x].previousSibling
        ns == nodes[x].nextSibling
    IN  [i \in DOMAIN nodes |->
            CASE i = x  -> [nodes[i] EXCEPT !.nextSibling = NoNode,
                                            !.previousSibling = NoNode,
                                            !.overloaded = NoNode]
              [] i = ps /\ i # x -> [nodes[i] EXCEPT !.nextSibling = ns]
              [] i = ns /\ i # x -> [nodes[i] EXCEPT !.previousSibling = ps]
              [] OTHER -> nodes[i]]

(* Mutant of Renumbered: the overnames keep their numbers.                 *)
NotRenumbered(nodes, x) == nodes

(* The overnames of the list around x, numbered from zero.                 *)
Renumbered(nodes, x) ==
    LET head == Last(Along(nodes, x, "previousSibling"))
        list == ListFrom(nodes, head)
    IN  [i \in DOMAIN nodes |->
            IF i \in ToSet(list)
            THEN [nodes[i] EXCEPT
                    !.overname = <<(CHOOSE k \in DOMAIN list : list[k] = i) - 1>>]
            ELSE nodes[i]]

Swig_symbol_remove(st, n) ==
    LET s == st.node[n].symtab
        ps == st.node[n].previousSibling
        ns == st.node[n].nextSibling
        cut == [Unlink(st.node, n) EXCEPT ![n].symtab = "none",
                                          ![n].overname = <<>>]
    IN  [node  |-> IF ns = NoNode THEN cut ELSE Renumbered(cut, ns),
         entry |-> IF ps = NoNode THEN [st.entry EXCEPT ![s] = ns]
                   ELSE st.entry]

-----------------------------------------------------------------------------
(* The parser.                                                             *)

Tables(st) ==
    /\ node' = st.node
    /\ entry' = st.entry

(* The list that begins with node e begins with a using declaration.       *)
UsingHeads(nodes, e) == e # NoNode /\ nodes[e].kind = "using"

UsingFirst(st) ==
    {o \in {"using first"} :
        \E s \in Scopes : UsingHeads(st.node, st.entry[s])}

(* add_symbols: a declaration that conflicts is marked and left out.       *)
Declare(s, k, d) ==
    LET n == Len(node) + 1
        st == Swig_symbol_add([node |-> Append(node, NewNode(k, d)),
                               entry |-> entry], s, n)
    IN  /\ Tables([st EXCEPT !.node[n].error = (st.found # n)])
        /\ cases' = cases \cup UsingFirst(st)

Declarations ==
    ({"cdecl", "template"} \X Decls) \cup {<<"variable", 0>>}

(* A declaration of a %extend block that comes before its class.           *)
AddExtend(k, d) ==
    /\ phase = "extend"
    /\ Len(block) < MaxExtend
    /\ <<k, d>> \in Declarations
    /\ Declare("extend", k, d)
    /\ block' = Append(block, Len(node) + 1)
    /\ UNCHANGED <<phase, tree, before, base, known>>

BeginClass ==
    /\ phase = "extend"
    /\ phase' = "class"
    /\ UNCHANGED <<node, entry, tree, block, before, base, known, cases>>

(* A declaration of the class: C++ has functions or one variable of a name,*)
(* nothing twice.                                                          *)
AddMember(k, d) ==
    /\ phase = "class"
    /\ Len(tree) < MaxMembers
    /\ <<k, d>> \in Declarations \cup {<<"using", 0>>}
    /\ tree # <<>> => "variable" \notin {k, node[tree[1]].kind}
    /\ \A n \in ToSet(tree) : ~SameDecl(node[n], NewNode(k, d))
    /\ Declare("class", k, d)
    /\ tree' = Append(tree, Len(node) + 1)
    /\ UNCHANGED <<phase, block, before, base, known>>

EndClass ==
    /\ phase = "class"
    /\ phase' = "merge"
    /\ before' = [n \in 1 .. Len(node) |-> node[n].symtab]
    /\ UNCHANGED <<node, entry, tree, block, base, known, cases>>

(* Mutant of Merge: the declaration gives way to the member it conflicts   *)
(* with, as one of a later block does.                                     *)
MergeGivesWay(n) ==
    LET out == Swig_symbol_remove([node |-> node, entry |-> entry], n)
        in1 == Swig_symbol_add(out, "class", n)
    IN  \/ node[n].error /\ UNCHANGED <<node, entry, cases>>
        \/ /\ ~node[n].error
           /\ Tables([in1 EXCEPT !.node[n].error = (in1.found # n)])
           /\ cases' = cases \cup UsingFirst(in1)

(* One turn of the loop of Swig_extend_merge: the declaration moves to the *)
(* class; a member it conflicts with is marked and taken out, and the      *)
(* declaration is added once more, without a look at the result.           *)
Merge(n) ==
    LET out == Swig_symbol_remove([node |-> node, entry |-> entry], n)
        in1 == Swig_symbol_add(out, "class", n)
        without == Swig_symbol_remove(in1, in1.found)
        in2 == Swig_symbol_add(
                   [without EXCEPT !.node[in1.found].error = TRUE], "class", n)
        replaced == in1.found = out.entry["class"]
    IN  \/ /\ node[n].error
           /\ UNCHANGED <<node, entry, cases>>
        \/ /\ ~node[n].error
           /\ in1.found = n
           /\ Tables(in1)
           /\ cases' = cases \cup UsingFirst(in1)
        \/ /\ ~node[n].error
           /\ in1.found # n
           /\ Tables(in2)
           /\ cases' = cases \cup UsingFirst(in2)
                     \cup {o \in {"lost"} : in2.found # n}
                     \cup {o \in {"template replaces first"} :
                               replaced /\ node[n].kind = "template"}

MergeNext ==
    /\ phase = "merge"
    /\ block # <<>>
    /\ Merge(Head(block))
    /\ tree' = Append(tree, Head(block))
    /\ block' = Tail(block)
    /\ UNCHANGED <<phase, before, base, known>>

EndMerge ==
    /\ phase = "merge"
    /\ block = <<>>
    /\ phase' = "later"
    /\ UNCHANGED <<node, entry, tree, block, before, base, known, cases>>

(* A declaration of a %extend block that comes after the class: it is      *)
(* added to the class itself, and gives way to a member it conflicts with. *)
AddLater(k, d) ==
    /\ phase = "later"
    /\ Len(tree) < MaxDecls
    /\ <<k, d>> \in Declarations
    /\ Declare("class", k, d)
    /\ tree' = Append(tree, Len(node) + 1)
    /\ UNCHANGED <<phase, block, before, base, known>>

EndInput ==
    /\ phase = "later"
    /\ phase' = "typepass"
    /\ UNCHANGED <<node, entry, tree, block, before, base, known, cases>>

-----------------------------------------------------------------------------
(* The type pass: it visits the members of the class, then the extensions. *)

(* Mutant of clean_overloaded: the first of the list stays the same when   *)
(* it is taken out.                                                        *)
CleanedOnly(nodes, n) ==
    LET list == ListFrom(nodes, nodes[n].overloaded)
        Dead(x) == nodes[x].error \/ nodes[x].kind = "template"
    IN  FoldLeft(Unlink, nodes, SelectSeq(list, Dead))

(* clean_overloaded takes templates and marked nodes out of n's list.      *)
clean_overloaded(nodes, n) ==
    LET list == ListFrom(nodes, nodes[n].overloaded)
        Dead(x) == nodes[x].error \/ nodes[x].kind = "template"
        kept == SelectSeq(list, LAMBDA x : ~Dead(x))
        cut == FoldLeft(Unlink, nodes, SelectSeq(list, Dead))
        set == [i \in DOMAIN cut |->
                    IF i \in ToSet(kept)
                    THEN [cut[i] EXCEPT !.overloaded = kept[1]] ELSE cut[i]]
    IN  IF kept = <<>> \/ set[kept[1]].nextSibling = NoNode
        THEN [set EXCEPT ![n].overloaded = NoNode]
        ELSE set

(* The copies of the base's methods that no function of n's list overrides,*)
(* linked to each other when there are two or more.                        *)
Copies(nodes, n) ==
    LET over == ListFrom(nodes, nodes[n].overloaded)
        Overridden(i) == \E x \in ToSet(over) : nodes[x].decl = base[i]
        used == SelectSeq([i \in 1 .. Len(base) |-> i],
                          LAMBDA i : ~Overridden(i))
        first == Len(nodes) + 1
        many == Len(used) > 1
    IN  [j \in 1 .. Len(used) |->
            [NewNode("cdecl", base[used[j]]) EXCEPT
                !.overname = <<used[j] - 1>>,
                !.nextSibling = IF j < Len(used) THEN first + j ELSE NoNode,
                !.previousSibling = IF j > 1 THEN first + j - 2 ELSE NoNode,
                !.overloaded = IF many THEN first ELSE NoNode]]

(* The copies take the place of the using node n in its list.              *)
Splice(nodes, n, first, last) ==
    LET ps == nodes[n].previousSibling
        ns == nodes[n].nextSibling
        head == IF nodes[n].overloaded = n THEN first ELSE nodes[n].overloaded
        after == IF nodes[n].overloaded = n THEN ToSet(ListFrom(nodes, ns))
                 ELSE {}
    IN  [i \in DOMAIN nodes |->
          [nodes[i] EXCEPT
            !.overloaded = IF i \in (first .. last) \cup after THEN head
                           ELSE IF i = n THEN NoNode ELSE @,
            !.overname = IF i \in first .. last
                         THEN Append(nodes[n].overname, i - first)
                         ELSE IF i = n THEN <<>> ELSE @,
            !.nextSibling = IF i = ps THEN first
                            ELSE IF i = last THEN ns
                            ELSE IF i = n THEN NoNode ELSE @,
            !.previousSibling = IF i = ns THEN last
                                ELSE IF i = first THEN ps
                                ELSE IF i = n THEN NoNode ELSE @]]

usingDeclaration(nodes, n) ==
    LET copies == Copies(nodes, n)
        first == Len(nodes) + 1
        last == Len(nodes) + Len(copies)
        alone == nodes[n].overloaded = NoNode
        all == IF alone /\ Len(copies) > 1
               THEN [nodes EXCEPT ![n].overloaded = n, ![n].overname = <<-1>>]
                    \o copies
               ELSE nodes \o copies
    IN  IF all[n].overloaded = NoNode THEN all
        ELSE IF copies = <<>>
        THEN [Unlink(all, n) EXCEPT ![n].overname = <<>>]
        ELSE Splice(all, n, first, last)

VisitCdecl ==
    /\ phase = "typepass"
    /\ tree # <<>>
    /\ node[Head(tree)].kind \in {"cdecl", "variable"}
    /\ node' = clean_overloaded(node, Head(tree))
    /\ tree' = Tail(tree)
    /\ UNCHANGED <<phase, entry, block, before, base, known, cases>>

VisitUsing ==
    /\ phase = "typepass"
    /\ tree # <<>>
    /\ node[Head(tree)].kind = "using"
    /\ node' = IF known THEN usingDeclaration(node, Head(tree)) ELSE node
    /\ tree' = Tail(tree)
    /\ UNCHANGED <<phase, entry, block, before, base, known, cases>>

(* A template declaration leaves the list alone.                           *)
VisitTemplate ==
    /\ phase = "typepass"
    /\ tree # <<>>
    /\ node[Head(tree)].kind = "template"
    /\ tree' = Tail(tree)
    /\ UNCHANGED <<phase, node, entry, block, before, base, known, cases>>

EndPass ==
    /\ phase = "typepass"
    /\ tree = <<>>
    /\ phase' = "done"
    /\ UNCHANGED <<node, entry, tree, block, before, base, known, cases>>

-----------------------------------------------------------------------------
SymInit ==
    /\ phase = "extend"
    /\ node = <<>>
    /\ entry = [s \in Scopes |-> NoNode]
    /\ tree = <<>>
    /\ block = <<>>
    /\ before = <<>>
    /\ base \in Bases
    /\ known \in BOOLEAN
    /\ cases = {}

SymNext ==
    \/ \E k \in Kinds, d \in Decls \cup {0} : AddExtend(k, d)
    \/ BeginClass
    \/ \E k \in Kinds, d \in Decls \cup {0} : AddMember(k, d)
    \/ EndClass
    \/ MergeNext
    \/ EndMerge
    \/ \E k \in Kinds, d \in Decls \cup {0} : AddLater(k, d)
    \/ EndInput
    \/ VisitCdecl
    \/ VisitUsing
    \/ VisitTemplate
    \/ EndPass

SymSpec == SymInit /\ [][SymNext]_symvars

-----------------------------------------------------------------------------
Parsing == phase \in {"extend", "class", "merge", "later"}

(* While the tables are built, by additions, removals and moves from the   *)
(* %extend block to the class (symbol.c:703, 1394): the list of a table is *)
(* exactly the nodes that carry the table's sym:symtab, linked both ways   *)
(* and numbered __SWIG_0, __SWIG_1, ... in order, and a node outside every *)
(* list has no link and no overname left, as the assertions in             *)
(* Swig_symbol_add and Swig_symbol_remove require.                         *)
ListsExact ==
    Parsing =>
      /\ \A s \in Scopes :
            LET list == ListFrom(node, entry[s])
            IN  /\ ToSet(list) = {n \in 1 .. Len(node) : node[n].symtab = s}
                /\ \A i \in 1 .. Len(list) :
                      /\ node[list[i]].overname = <<i - 1>>
                      /\ node[list[i]].previousSibling =
                            IF i = 1 THEN NoNode ELSE list[i - 1]
      /\ \A n \in 1 .. Len(node) :
            node[n].symtab = "none" =>
               /\ node[n].overname = <<>>
               /\ {node[n].nextSibling, node[n].previousSibling,
                   node[n].overloaded} = {NoNode}

(* What met in the merge: the declarations of the %extend block that were   *)
(* not marked in the block itself, and those of the class.                 *)
Extensions == {n \in 1 .. Len(before) : before[n] = "extend"}
Members == {n \in 1 .. Len(before) : before[n] = "class"}

(* A variable of %extend that replaced the first of several functions, and *)
(* was turned away by the next when it was added once more: extend.c:85    *)
(* does not look at the result.                                            *)
TurnedAway(x) ==
    /\ node[x].kind = "variable" /\ node[x].symtab = "none"
    /\ \E m \in Members : node[m].symtab = "class"

(* "The %extend actually needs to take precedence" (extend.c:35).  After   *)
(* the merge of a %extend block, and after additions by later blocks:      *)
(* - a declaration of the block is the one that stays: it is not marked    *)
(*   and is in the class's table, unless it is a variable turned away;     *)
(* - a member of the class is in the table or is marked and out, and it is *)
(*   marked only if a declaration of the block conflicts with it;          *)
(* - a declaration of a later block is in the table or is marked and out;  *)
(* - no two of the table conflict, so no member is left beside the         *)
(*   extension that replaces it, unless a using declaration comes first in *)
(*   the list, where Swig_symbol_add does not compare (symbol.c:893).      *)
ExtendWins ==
    phase = "later" =>
      /\ \A x \in Extensions :
            ~node[x].error /\ (node[x].symtab = "class" \/ TurnedAway(x))
      /\ \A m \in Members : node[m].error =>
            \E x \in Extensions : ~Apart(node[m], node[x])
      /\ \A n \in 1 .. Len(node) : n \notin Extensions =>
            node[n].symtab = IF node[n].error THEN "none" ELSE "class"
      /\ UsingHeads(node, entry["class"]) \/
         \A m, n \in {x \in 1 .. Len(node) : node[x].symtab = "class"} :
            m # n => Apart(node[m], node[n])

(* The functions the code generator wraps, and those Swig_overload_rank    *)
(* (src/Source/Modules/overload.cxx:87) collects for the dispatcher of n.  *)
Wrapped == {n \in 1 .. Len(node) : node[n].kind = "cdecl" /\ ~node[n].error}
Ranked(n) == ToSet(ListFrom(node, node[n].overloaded)) \cap Wrapped

(* What symbol.c:114 says of sym:overloaded, "Set to the first symbol if   *)
(* overloaded", as the code generators use it after the type pass: each of *)
(* several functions of a name leads to all of them, and their overnames   *)
(* differ, so each gets a wrapper of its own and is found by the           *)
(* dispatcher.                                                             *)
OverloadedSet ==
    (phase = "done" /\ Cardinality(Wrapped) > 1) =>
      /\ \A n \in Wrapped : Ranked(n) = Wrapped
      /\ \A m, n \in Wrapped : m # n => node[m].overname # node[n].overname

(* The same, where none of the cases happened: with templates that         *)
(* clean_overloaded takes out, using declarations that usingDeclaration    *)
(* replaces by copies or takes out, and members, the first included, that  *)
(* a function of %extend replaced, in every order.  Swig_symbol_remove     *)
(* leaves the sym:overloaded of the others at a first it removed; the      *)
(* visits of the type pass must have repaired that.                        *)
OverloadedSetMostly == cases = {} => OverloadedSet
=============================================================================
