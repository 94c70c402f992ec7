----------------------------- MODULE BPlusTree -----------------------------
(***************************************************************************)
(* One index: the B+Tree of crates/rdbms_index, its pages read and written *)
(* through the page store that a transaction supplies (rdbms_tx), and      *)
(* lookups of the committed tree.                                          *)
(*                                                                         *)
(* An insert goes down the tree (insert_recursive calling itself, "path"   *)
(* is its call stack), stores the leaf, and comes back up with a pending   *)
(* split.  Each page store is a step of its own or a failure of its own:   *)
(* a node of long text keys may not fit in a page, and then insert returns *)
(* with the pages it has stored so far still staged.                       *)
(***************************************************************************)
EXTENDS Integers, FiniteSets, SequencesExt

CONSTANTS
    Keys,          \* the ordered keys, a set of integers
    Rows,          \* the row ids, a set of integers; each row is indexed once
    MaxKeys,       \* MAX_KEYS: entries of a leaf, separators of an internal node
    KeySize,       \* KeySize[k]: bytes that key k takes in a node
    NodeCapacity,  \* bytes of keys that fit in one page
    FirstRoots,    \* the page ids that CREATE INDEX may have been given for the root
    MaxPage,       \* the last page id that allocate_page_id gives out
    MaxFaults,     \* bound: pages that fail to load
    CommitAfterError \* may a caller commit after an insert returned an error?

ASSUME TreeAssumption ==
    /\ Keys \subseteq Int /\ Keys # {} /\ Rows \subseteq Nat /\ Rows # {}
    /\ MaxKeys \in Nat /\ MaxKeys >= 2
    /\ KeySize \in [Keys -> Nat] /\ NodeCapacity \in Nat
    /\ MaxPage \in Nat \ {0} /\ FirstRoots \subseteq 1..MaxPage /\ MaxFaults \in Nat
    /\ CommitAfterError \in BOOLEAN

\* Page 0 is the catalog, so that 0 can stand for "no next leaf".
None == 0
PageIds == 1..MaxPage

Entry == [key : Keys, row : Rows]
Leaf(next, entries) ==
    [kind |-> "leaf", next |-> next, entries |-> entries, keys |-> << >>, children |-> << >>]
Internal(keys, children) ==
    [kind |-> "internal", next |-> None, entries |-> << >>, keys |-> keys, children |-> children]
Missing == [kind |-> "missing", next |-> None, entries |-> << >>, keys |-> << >>, children |-> << >>]

VARIABLES
    pages,    \* the index pages as the transaction in progress sees them
    root,     \* root_page_id in the working catalog
    nextPage, \* next_page_id in the working catalog
    saved,    \* the three of them as last committed
    pc,       \* where the current call is
    arg,      \* its key and row
    at,       \* the page it looks at
    path,     \* the internal pages above, each with the child taken
    split,    \* SplitResult on the way up
    out,      \* the rows a lookup has collected
    failed,   \* an insert of this transaction has returned an error
    entries,  \* history: the entries inserted, as the transaction sees them
    kept,     \* history: the entries of committed transactions
    faults

tree == <<pages, root, nextPage>>
call == <<arg, at, path, split, out>>
vars == <<tree, saved, pc, call, failed, entries, kept, faults>>

Phases == {"idle", "down", "up", "find", "collect", "found", "error", "broken"}
Node == [kind : {"leaf", "internal", "missing"}, next : PageIds \cup {None},
         entries : Seq(Entry), keys : Seq(Keys), children : Seq(PageIds)]
Frame == [page : PageIds, child : Nat]

\* Every variable has a value of its kind, and no stored node has more
\* than MAX_KEYS entries or separators.
TypeOK ==
    /\ pages \in [PageIds -> Node]
    /\ root \in PageIds /\ nextPage \in 2..(MaxPage + 1)
    /\ saved \in [pages : [PageIds -> Node], root : PageIds, nextPage : 2..(MaxPage + 1)]
    /\ pc \in Phases
    /\ arg \in Entry
    /\ at \in PageIds
    /\ path \in Seq(Frame)
    /\ split \in [separator : Keys, right : PageIds \cup {None}]
    /\ out \in Seq(Rows)
    /\ failed \in BOOLEAN
    /\ entries \subseteq Entry /\ kept \subseteq Entry
    /\ faults \in 0..MaxFaults
    /\ \A p \in PageIds : /\ Len(pages[p].entries) <= MaxKeys
                          /\ Len(pages[p].keys) <= MaxKeys

AnyEntry == CHOOSE e \in Entry : TRUE
NoSplit == [separator |-> AnyEntry.key, right |-> None]

\* The index after CREATE INDEX: initialize_root has stored an empty leaf.
Init ==
    /\ root \in FirstRoots /\ nextPage = root + 1
    /\ pages = [p \in PageIds |-> IF p = root THEN Leaf(None, << >>) ELSE Missing]
    /\ saved = [pages |-> pages, root |-> root, nextPage |-> nextPage]
    /\ pc = "idle"
    /\ arg = AnyEntry /\ at = 1 /\ path = << >> /\ split = NoSplit /\ out = << >>
    /\ failed = FALSE
    /\ entries = {} /\ kept = {}
    /\ faults = 0

-----------------------------------------------------------------------------
(***************************************************************************)
(* Nodes.                                                                  *)
(***************************************************************************)

\* compare_entry: by key, then by row id.
Before(e, f) == e.key < f.key \/ (e.key = f.key /\ e.row < f.row)

\* insert_leaf_entry: the place a binary search of the sorted entries finds.
WithEntry(es, e) ==
    InsertAt(es, Cardinality({i \in DOMAIN es : Before(es[i], e)}) + 1, e)

\* Mutant: an equal key goes right of its separator.
ChildForEqualRight(keys, k) == Cardinality({i \in DOMAIN keys : k >= keys[i]}) + 1

\* child_index_for_key, counted from 1: past every separator below the key.
ChildFor(keys, k) == Cardinality({i \in DOMAIN keys : k > keys[i]}) + 1

\* Does encode_node's record fit in an empty page (node_to_page)?
Fits(node) ==
    LET used == MapThenSumSet(LAMBDA i : KeySize[node.entries[i].key], DOMAIN node.entries)
              + MapThenSumSet(LAMBDA i : KeySize[node.keys[i]], DOMAIN node.keys)
    IN  used <= NodeCapacity

Front_(s, n) == SubSeq(s, 1, n)
Rest(s, n) == SubSeq(s, n + 1, Len(s))

-----------------------------------------------------------------------------
(***************************************************************************)
(* Insert.                                                                 *)
(***************************************************************************)

\* Transaction::insert_index_entry calls rdbms_index::insert at the root.
Insert(e) ==
    /\ pc = "idle"
    /\ e.row \notin {f.row : f \in entries}
    /\ ~failed \/ CommitAfterError
    /\ pc' = "down" /\ arg' = e /\ at' = root /\ path' = << >> /\ split' = NoSplit
    /\ UNCHANGED <<tree, saved, out, failed, entries, kept, faults>>

\* insert_recursive at an internal node: go on in the child for the key.
Descend ==
    /\ pc = "down" /\ pages[at].kind = "internal"
    /\ LET i == ChildFor(pages[at].keys, arg.key)
       IN  /\ path' = Append(path, [page |-> at, child |-> i])
           /\ at' = pages[at].children[i]
    /\ UNCHANGED <<tree, saved, pc, arg, split, out, failed, entries, kept, faults>>

\* A call returns and its local variables are gone.
EndCall ==
    /\ pc' = "idle"
    /\ arg' = AnyEntry /\ at' = 1 /\ path' = << >> /\ split' = NoSplit /\ out' = << >>

\* insert returns Ok: nothing above the page changes.  A new root is recorded in
\* the working catalog by set_index_root_page.
Return(newRoot) ==
    /\ EndCall /\ root' = newRoot
    /\ entries' = entries \cup {arg}
    /\ UNCHANGED <<saved, failed, kept, faults>>

\* insert returns an error; whatever it has stored stays staged.
Raise ==
    /\ EndCall /\ failed' = TRUE
    /\ UNCHANGED <<root, saved, entries, kept, faults>>

\* allocate_page_id has a page id left and gives it out.
Allocate == nextPage <= MaxPage /\ nextPage' = nextPage + 1

\* allocate_page_id has run out of page ids, and nothing has been stored.
OutOfPages ==
    /\ nextPage > MaxPage
    /\ Raise
    /\ UNCHANGED <<pages, nextPage>>

\* Page p has been split: store its two halves and hand the separator to the
\* caller in the frames that are left.
SplitInto(p, left, right, separator, frames) ==
    \/ /\ Allocate
       /\ Fits(left) /\ Fits(right)
       /\ pages' = [pages EXCEPT ![p] = left, ![nextPage] = right]
       /\ split' = [separator |-> separator, right |-> nextPage]
       /\ pc' = "up" /\ path' = frames
       /\ UNCHANGED <<root, saved, arg, at, out, failed, entries, kept, faults>>
    \/ /\ Allocate
       /\ Fits(left) /\ ~Fits(right)
       /\ pages' = [pages EXCEPT ![p] = left]
       /\ Raise
    \/ /\ Allocate
       /\ ~Fits(left)
       /\ Raise
       /\ UNCHANGED pages
    \/ OutOfPages

\* A plain store of page p, after which insert is done.
StoreAndReturn(p, node) ==
    \/ /\ Fits(node)
       /\ pages' = [pages EXCEPT ![p] = node]
       /\ Return(root)
       /\ UNCHANGED nextPage
    \/ /\ ~Fits(node)
       /\ Raise
       /\ UNCHANGED <<pages, nextPage>>

\* Mutant: the separator is taken one entry too late.
SplitLeafLateSeparator(next, es) ==
    LET half == Len(es) \div 2
    IN  SplitInto(at, Leaf(nextPage, Front_(es, half)), Leaf(next, Rest(es, half)),
                  es[half + 2].key, path)

\* Mutant: the left half keeps its old next leaf.
SplitLeafUnlinked(next, es) ==
    LET half == Len(es) \div 2
    IN  SplitInto(at, Leaf(next, Front_(es, half)), Leaf(next, Rest(es, half)),
                  es[half + 1].key, path)

\* Mutant: both halves get the new page as their next leaf.
SplitLeafSelfLinked(next, es) ==
    LET half == Len(es) \div 2
    IN  SplitInto(at, Leaf(nextPage, Front_(es, half)), Leaf(nextPage, Rest(es, half)),
                  es[half + 1].key, path)

\* The two halves of a leaf that is too full, and the separator between them.
SplitLeaf(next, es) ==
    LET half == Len(es) \div 2
    IN  SplitInto(at, Leaf(nextPage, Front_(es, half)), Leaf(next, Rest(es, half)),
                  es[half + 1].key, path)

\* Mutant: a leaf may hold one entry more than MAX_KEYS.
InsertInLeafOverfull ==
    /\ pc = "down" /\ pages[at].kind = "leaf"
    /\ LET es == WithEntry(pages[at].entries, arg)
       IN  IF Len(es) <= MaxKeys + 1
           THEN StoreAndReturn(at, Leaf(pages[at].next, es))
           ELSE SplitLeaf(pages[at].next, es)

\* insert_recursive at a leaf.
InsertInLeaf ==
    /\ pc = "down" /\ pages[at].kind = "leaf"
    /\ LET es == WithEntry(pages[at].entries, arg)
       IN  IF Len(es) <= MaxKeys
           THEN StoreAndReturn(at, Leaf(pages[at].next, es))
           ELSE SplitLeaf(pages[at].next, es)

\* The two halves of an internal node that is too full; the middle separator moves
\* up and is in neither half.
SplitInternal(p, ks, cs) ==
    LET half == Len(ks) \div 2
    IN  SplitInto(p, Internal(Front_(ks, half), Front_(cs, half + 1)),
                  Internal(Rest(ks, half + 1), Rest(cs, half + 1)),
                  ks[half + 1], Front(path))

\* insert_recursive back in an internal node, one of whose children has split.
InsertInParent ==
    /\ pc = "up" /\ path # << >>
    /\ LET p == Last(path).page
           i == Last(path).child
           ks == InsertAt(pages[p].keys, i, split.separator)
           cs == InsertAt(pages[p].children, i + 1, split.right)
       IN  IF Len(ks) <= MaxKeys
           THEN StoreAndReturn(p, Internal(ks, cs))
           ELSE SplitInternal(p, ks, cs)

\* insert when the root itself has split.  The new root holds one key, which has
\* just been stored in a leaf, so that it fits.
NewRoot ==
    /\ pc = "up" /\ path = << >>
    /\ \/ /\ Allocate
          /\ pages' = [pages EXCEPT ![nextPage] =
                          Internal(<<split.separator>>, <<root, split.right>>)]
          /\ Return(nextPage)
       \/ OutOfPages

\* load_page or node_from_page fails on the way down.  (No child pointer leads to a
\* page that was never stored: that insert would be stuck here, and TLC finds none.)
InsertReadFails ==
    /\ pc = "down"
    /\ faults < MaxFaults /\ faults' = faults + 1
    /\ EndCall /\ failed' = TRUE
    /\ UNCHANGED <<tree, saved, entries, kept>>

-----------------------------------------------------------------------------
(***************************************************************************)
(* The transaction around it: commit installs the staged pages and the     *)
(* working catalog together, rollback and drop discard them together.      *)
(* TxStore shows at which steps and under which failures that is so.       *)
(***************************************************************************)

Commit ==
    /\ pc = "idle"
    /\ \/ ~failed /\ kept # entries
       \/ failed /\ CommitAfterError
    /\ saved' = [pages |-> pages, root |-> root, nextPage |-> nextPage]
    /\ kept' = entries /\ failed' = FALSE
    /\ UNCHANGED <<tree, pc, call, entries, faults>>

Discard ==
    /\ pc = "idle" /\ (failed \/ kept # entries)
    /\ pages' = saved.pages /\ root' = saved.root /\ nextPage' = saved.nextPage
    /\ entries' = kept /\ failed' = FALSE
    /\ UNCHANGED <<saved, pc, call, kept, faults>>

-----------------------------------------------------------------------------
(***************************************************************************)
(* Lookup, of the committed tree (CommittedIndexPageStore).  A lookup that *)
(* meets a page which was never stored ends "broken".                      *)
(***************************************************************************)

Lookup(k) ==
    /\ pc = "idle" /\ ~failed /\ kept = entries
    /\ pc' = "find" /\ at' = saved.root /\ out' = << >>
    /\ arg' = [arg EXCEPT !.key = k]
    /\ UNCHANGED <<tree, saved, path, split, failed, entries, kept, faults>>

FindLeaf ==
    /\ pc = "find"
    /\ LET node == saved.pages[at]
       IN  \/ /\ node.kind = "internal"
              /\ at' = node.children[ChildFor(node.keys, arg.key)]
              /\ UNCHANGED pc
           \/ /\ node.kind = "leaf"
              /\ pc' = "collect"
              /\ UNCHANGED at
    /\ UNCHANGED <<tree, saved, arg, path, split, out, failed, entries, kept, faults>>

\* The rows of key k among the first entries of a leaf, behind those collected so far.
Matches(es, k, rows) ==
    LET matches[i \in 0..Len(es)] ==
            IF i = 0 THEN rows
            ELSE IF es[i].key = k THEN Append(matches[i - 1], es[i].row) ELSE matches[i - 1]
    IN  matches

\* One leaf: entries up to the first greater key, and on to the next leaf if there
\* is no greater one.
Collect ==
    /\ pc = "collect" /\ saved.pages[at].kind = "leaf"
    /\ LET node == saved.pages[at]
           n == Cardinality({i \in DOMAIN node.entries :
                               \A j \in 1..i : node.entries[j].key <= arg.key})
       IN  /\ out' = Matches(node.entries, arg.key, out)[n]
           /\ IF n < Len(node.entries) \/ node.next = None
              THEN pc' = "found" /\ UNCHANGED at
              ELSE at' = node.next /\ UNCHANGED pc
    /\ UNCHANGED <<tree, saved, arg, path, split, failed, entries, kept, faults>>

LookupReadFails ==
    /\ pc \in {"find", "collect"}
    /\ \/ faults < MaxFaults /\ faults' = faults + 1 /\ pc' = "error"
       \/ saved.pages[at].kind = "missing" /\ UNCHANGED faults /\ pc' = "broken"
    /\ UNCHANGED <<tree, saved, call, failed, entries, kept>>

LookupReturns ==
    /\ pc \in {"found", "error", "broken"}
    /\ EndCall
    /\ UNCHANGED <<tree, saved, failed, entries, kept, faults>>

Step ==
    \/ Descend \/ InsertInLeaf \/ InsertInParent \/ NewRoot \/ InsertReadFails
    \/ FindLeaf \/ Collect \/ LookupReadFails \/ LookupReturns

Call ==
    \/ \E e \in Entry : Insert(e)
    \/ \E k \in Keys : Lookup(k)
    \/ Commit \/ Discard

Next == Step \/ Call

Spec == Init /\ [][Next]_vars

\* A call, once made, runs on: the thread that made it is not suspended for ever.
FairSpec == Spec /\ WF_vars(Step)

-----------------------------------------------------------------------------
(***************************************************************************)
(* The shape of the tree that a caller sees between two calls.             *)
(***************************************************************************)

\* The pages at depth d below the root.
Level ==
    LET level[d \in 0..MaxPage] ==
            IF d = 0 THEN {root}
            ELSE UNION {Range(pages[p].children) : p \in level[d - 1]}
    IN  level

\* The leaves under page p from left to right, for a tree of at most d levels.
LeavesInOrder ==
    LET leaves[d \in 0..MaxPage] ==
            [p \in PageIds |->
                IF d = 0 \/ pages[p].kind # "internal" THEN <<p>>
                ELSE FlattenSeq([i \in DOMAIN pages[p].children |->
                                    leaves[d - 1][pages[p].children[i]]])]
    IN  leaves[MaxPage]

EntriesUnder(p) == UNION {Range(pages[l].entries) : l \in Range(LeavesInOrder[p])}

Intact == pc = "idle" /\ ~failed

\* insert and lookup choose one child by the separators, and keys may repeat: a
\* separator is at least every key on its left and at most every key on its right,
\* at every level, whatever splits made the node.
SeparatorsBound ==
    Intact =>
        \A p \in UNION Range(Level) : pages[p].kind = "internal" =>
            /\ Len(pages[p].children) = Len(pages[p].keys) + 1
            /\ \A i \in DOMAIN pages[p].keys :
                /\ \A e \in EntriesUnder(pages[p].children[i]) : e.key <= pages[p].keys[i]
                /\ \A e \in EntriesUnder(pages[p].children[i + 1]) : e.key >= pages[p].keys[i]

\* Leaf and root splits keep every leaf at the same distance from the root.
LeavesAtOneLevel ==
    Intact => \A d \in DOMAIN Level : \A p, q \in Level[d] : pages[p].kind = pages[q].kind

\* What find_leaf and insert_recursive rely on when they go down from the root, after any
\* splits: the separators bound the keys, and all leaves are equally deep.
TreeShape == SeparatorsBound /\ LeavesAtOneLevel

\* The next_leaf chain that lookup follows across duplicates visits exactly the
\* leaves that the tree reaches, from left to right, with keys in order and no
\* entry lost, repeated or invented by any sequence of splits.
ChainHoldsEntries ==
    Intact =>
        LET leaves == LeavesInOrder[root]
            all == FlattenSeq([i \in DOMAIN leaves |-> pages[leaves[i]].entries])
        IN  /\ \A i \in DOMAIN leaves :
                 pages[leaves[i]].next = IF i = Len(leaves) THEN None ELSE leaves[i + 1]
            /\ \A i \in 1..(Len(all) - 1) : all[i].key <= all[i + 1].key
            /\ Range(all) = entries /\ Len(all) = Cardinality(entries)

\* A lookup of a committed index returns exactly the rows committed under its key,
\* each once, and never runs into a page that no commit has stored.
LookupExact ==
    /\ pc # "broken"
    /\ pc = "found" =>
        /\ Range(out) = {e.row : e \in {f \in kept : f.key = arg.key}}
        /\ IsInjective(out)

\* Every insert and every lookup returns: the descent ends in a leaf and the chain
\* of leaves ends, after every sequence of splits, failed inserts and rollbacks.
CallsReturn == pc # "idle" ~> pc = "idle"

-----------------------------------------------------------------------------
====
