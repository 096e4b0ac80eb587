----------------------------- MODULE LedgerTrie -----------------------------
(* The compressed trie of validated ledgers.  A node stands for the span     *)
(* [start, end) of the history of its ledger.  Nodes are nested values, so   *)
(* the code's walks up the parent pointers are the way back of a recursion.  *)
EXTENDS ValidatedLedger, SequencesExt

CONSTANTS MaxSupport,  \* bound on the total support, and on a single count
          Issued       \* the values of the largest sequence we validated

VARIABLES root,        \* the root node
          seqSupport   \* sequence -> tip support; 0 where the map has no entry

vars == <<root, seqSupport>>

Node(start, end, ledger, count, children) ==
    [start |-> start, end |-> end, ledger |-> ledger,
     tipSupport |-> count, branchSupport |-> count, children |-> children]

diff(n, l) == Smaller(Larger(n.start, mismatch(n.ledger, l)), n.end)
tipID(n) == At(n.ledger, n.end - 1)
startID(n) == At(n.ledger, n.start)

\* The children that agree with l on more than the first pos ledgers.
Deeper(n, l, pos) == {i \in DOMAIN n.children : diff(n.children[i], l) > pos}

\* The node with the longest ancestry in common with l, and the sequence of
\* the first difference.  The first deeper child is taken.
RECURSIVE find(_, _)
find(n, l) ==
    LET pos == diff(n, l)
    IN IF pos = n.end /\ Deeper(n, l, pos) # {}
       THEN find(n.children[Min(Deeper(n, l, pos))], l)
       ELSE [loc |-> n, pos |-> pos]

\* The nodes of a sequence of branches in depth first order.
RECURSIVE InOrder(_)
InOrder(nodes) ==
    IF nodes = <<>> THEN <<>>
    ELSE <<Head(nodes)>> \o InOrder(Head(nodes).children) \o InOrder(Tail(nodes))

Nodes(n) == InOrder(<<n>>)

\* The nodes that end with exactly the ledger l; the first one is found.
findByLedgerID(n, l) == SelectSeq(Nodes(n), LAMBDA m : tipID(m) = l)

-----------------------------------------------------------------------------
\* A node that agrees with a ledger only before pos is cut there, and the
\* rest of it becomes its only child.
Split(loc, pos) ==
    IF pos < loc.end
    THEN [loc EXCEPT !.end = pos, !.tipSupport = 0,
                     !.children = <<[loc EXCEPT !.start = pos]>>]
    ELSE loc

InsertHere(loc, pos, l, count) ==
    IF pos <= seq(l)
    THEN [Split(loc, pos) EXCEPT
            !.branchSupport = @ + count,
            !.children = Append(@, Node(pos, seq(l) + 1, l, count, <<>>))]
    ELSE [Split(loc, pos) EXCEPT !.branchSupport = @ + count, !.tipSupport = @ + count]

RECURSIVE InsertUnder(_, _, _)
InsertUnder(n, l, count) ==
    LET pos == diff(n, l)
    IN IF pos = n.end /\ Deeper(n, l, pos) # {}
       THEN [n EXCEPT !.branchSupport = @ + count,
                      !.children[Min(Deeper(n, l, pos))] = InsertUnder(@, l, count)]
       ELSE InsertHere(n, pos, l, count)

insert(l, count) ==
    /\ root.branchSupport + count <= MaxSupport
    /\ root' = InsertUnder(root, l, count)
    /\ seqSupport' = [seqSupport EXCEPT ![seq(l)] = @ + count]

-----------------------------------------------------------------------------
\* Mutant: the last child is dropped in place of the one erased.
EraseLast(children, i, child) ==
    CASE child.tipSupport # 0 \/ Len(child.children) > 1 -> [children EXCEPT ![i] = child]
      [] child.tipSupport = 0 /\ Len(child.children) = 1 ->
            [children EXCEPT ![i] = [child.children[1] EXCEPT !.start = child.start]]
      [] OTHER -> Front(children)

\* Mutant: a node without support that has one child is left there.
NeverMerge(children, i, child) ==
    CASE child.tipSupport # 0 \/ Len(child.children) > 0 -> [children EXCEPT ![i] = child]
      [] OTHER -> Front([children EXCEPT ![i] = Last(children)])

\* A child without tip support goes away when it has no children (the last
\* child takes its place), and is merged with a single child.
Compress(children, i, child) ==
    CASE child.tipSupport # 0 \/ Len(child.children) > 1 -> [children EXCEPT ![i] = child]
      [] child.tipSupport = 0 /\ Len(child.children) = 1 ->
            [children EXCEPT ![i] = [child.children[1] EXCEPT !.start = child.start]]
      [] OTHER -> Front([children EXCEPT ![i] = Last(children)])

\* The loop of remove compresses upwards as long as it can.  A node above one
\* that stays has as many children as before, so trying every level is the same.
RECURSIVE RemoveUnder(_, _, _)
RemoveUnder(n, l, count) ==
    IF tipID(n) = l
    THEN [n EXCEPT !.tipSupport = @ - count, !.branchSupport = @ - count]
    ELSE LET i == Min({j \in DOMAIN n.children : findByLedgerID(n.children[j], l) # <<>>})
         IN [n EXCEPT !.branchSupport = @ - count,
                      !.children = Compress(@, i, RemoveUnder(@[i], l, count))]

tipSupport(n, l) ==
    LET exact == findByLedgerID(n, l)
    IN IF exact # <<>> THEN Head(exact).tipSupport ELSE 0

\* An exact match with tip support is needed, else nothing happens.
remove(l, count) ==
    LET c == Smaller(count, tipSupport(root, l))
    IN /\ c > 0
       /\ root' = RemoveUnder(root, l, c)
       /\ seqSupport' = [seqSupport EXCEPT ![seq(l)] = @ - c]

\* Mutant: any ledger whose search ends in a node has that node's support.
BranchOfFound(n, l) ==
    LET exact == findByLedgerID(n, l)
    IN IF exact # <<>> THEN Head(exact).branchSupport ELSE find(n, l).loc.branchSupport

\* The support of a ledger that need not have a node: it may be inside a span.
branchSupport(n, l) ==
    LET exact == findByLedgerID(n, l)
        found == find(n, l)
    IN IF exact # <<>> THEN Head(exact).branchSupport
       ELSE IF found.pos > seq(l) /\ seq(l) < found.loc.end
       THEN found.loc.branchSupport
       ELSE 0

empty == root.branchSupport = 0

-----------------------------------------------------------------------------
\* getPreferred's iterator over seqSupport: the support at sequences below it
\* is uncommitted.
Below(ss, it) == SumFunctionOnSet(ss, {s \in Seqs : s < it})

\* Entries not yet counted that lie inside the node's span.
Ahead(n, ss, it) == {s \in Seqs : it <= s /\ s < n.end /\ ss[s] > 0}

\* Mutant: the walk along a span does not count the support it passes.
SkipAlong(n, ss, nextSeq, it) == [nextSeq |-> n.end, it |-> it]

\* Along a span as long as its branch support exceeds what is uncommitted,
\* from one change of the uncommitted support to the next.
RECURSIVE Along(_, _, _, _)
Along(n, ss, nextSeq, it) ==
    IF ~(nextSeq < n.end /\ n.branchSupport > Below(ss, it))
    THEN [nextSeq |-> nextSeq, it |-> it]
    ELSE IF Ahead(n, ss, it) = {} THEN [nextSeq |-> n.end, it |-> it]
    ELSE Along(n, ss, Min(Ahead(n, ss, it)) + 1, Min(Ahead(n, ss, it)) + 1)

\* The order of the children: larger support first, then larger id.
Before(a, b) ==
    \/ a.branchSupport > b.branchSupport
    \/ a.branchSupport = b.branchSupport /\ startID(a) > startID(b)

\* partial_sort: the two best come first.  What follows them is unspecified,
\* here it keeps its order.
Best(children) ==
    CHOOSE i \in DOMAIN children : \A j \in DOMAIN children : ~Before(children[j], children[i])
ToFront(children, i) == <<children[i]>> \o RemoveAt(children, i)
BestTwoFirst(children) ==
    IF Len(children) < 2 THEN children
    ELSE LET first == ToFront(children, Best(children))
         IN <<Head(first)>> \o ToFront(Tail(first), Best(Tail(first)))

\* Mutant: the uncommitted support may overtake the second best unnoticed.
MarginOfBranch(sorted) == sorted[1].branchSupport

\* By how much the best child is ahead of the second best.
margin(sorted) ==
    IF Len(sorted) = 1 THEN sorted[1].branchSupport
    ELSE sorted[1].branchSupport - sorted[2].branchSupport
         + (IF startID(sorted[1]) > startID(sorted[2]) THEN 1 ELSE 0)

SpanTip(n, end) == [seq |-> end - 1, id |-> At(n.ledger, end - 1), ledger |-> n.ledger]

\* The walk from the node n down: the tip it ends at, and n as the sorting
\* of the children on the way leaves it.
RECURSIVE Walk(_, _, _, _)
Walk(n, ss, it, largestIssued) ==
    LET along == Along(n, ss, n.start + 1, Larger(it, Larger(n.start + 1, largestIssued)))
        sorted == BestTwoFirst(n.children)
        uncommitted == Below(ss, along.it)
    IN CASE along.nextSeq < n.end -> [tip |-> SpanTip(n, along.nextSeq), node |-> n]
         [] along.nextSeq >= n.end /\ sorted = <<>> -> [tip |-> SpanTip(n, n.end), node |-> n]
         [] OTHER ->
              LET m == [n EXCEPT !.children = sorted]
                  below == Walk(sorted[1], ss, along.it, largestIssued)
              IN IF margin(sorted) > uncommitted \/ uncommitted = 0
                 THEN [tip |-> below.tip, node |-> [m EXCEPT !.children[1] = below.node]]
                 ELSE [tip |-> SpanTip(n, n.end), node |-> m]

\* Asking for the preferred ledger sorts the children that were compared.
getPreferred(largestIssued) ==
    /\ ~empty
    /\ root' = Walk(root, seqSupport, 0, largestIssued).node
    /\ UNCHANGED seqSupport

-----------------------------------------------------------------------------
Init ==
    /\ root = Node(0, 1, Genesis, 0, <<>>)
    /\ seqSupport = [s \in Seqs |-> 0]

Next ==
    \/ \E l \in ID, count \in 1..MaxSupport : insert(l, count)
    \/ \E l \in ID, count \in 1..MaxSupport : remove(l, count)
    \/ \E largestIssued \in Issued : getPreferred(largestIssued)

Spec == Init /\ [][Next]_vars

-----------------------------------------------------------------------------
\* Through splits, merges and clamped removals a child's span starts where its
\* parent's ends, no span is empty and its ledger reaches to its end; and, as
\* checkInvariants says, a node other than the root that nobody supports has at
\* least two children, so that the trie stays as small as the supported
\* ledgers, branch support adds up, and seqSupport counts the supported tips.
WellFormed ==
    /\ root.start = 0 /\ root.end = 1 /\ root.ledger = Genesis
    /\ \A n \in Range(Nodes(root)) :
          /\ n.start < n.end /\ n.end <= seq(n.ledger) + 1
          /\ \A i \in DOMAIN n.children : n.children[i].start = n.end
          /\ n.branchSupport = n.tipSupport
                + SumFunction([i \in DOMAIN n.children |-> n.children[i].branchSupport])
    /\ \A n \in Range(Tail(Nodes(root))) : n.tipSupport > 0 \/ Len(n.children) >= 2
    /\ \A s \in Seqs :
          seqSupport[s] = FoldSeq(LAMBDA n, sum : sum + n.tipSupport, 0,
                                  SelectSeq(Nodes(root), LAMBDA n : n.end - 1 = s))

\* The support each ledger has anywhere in the trie.
Support ==
    FoldSeq(LAMBDA n, sup : [sup EXCEPT ![tipID(n)] = @ + n.tipSupport],
            [l \in ID |-> 0], SelectSeq(Nodes(root), LAMBDA n : n.tipSupport > 0))

Counts == INSTANCE LedgerSupport WITH support <- Support

\* The trie is a multiset of ledgers: insert and remove change the support of
\* just the ledger they are given, whatever nodes they split, merge or erase.
CountsSupport == Counts!SupportSpec

\* tipSupport: "The number of entries in the trie for this *exact* ledger", and
\* branchSupport: "The number of entries in the trie for this ledger or a
\* descendant", also for a ledger inside a span, which has no node of its own.
SupportExact ==
    LET sup == Support
    IN \A l \in ID : /\ tipSupport(root, l) = sup[l]
                     /\ branchSupport(root, l) = Counts!Branch(sup, l)

\* The walk over compressed spans with its running count of uncommitted
\* support finds the ledger that the step by step definition prefers.
PreferredByBranch ==
    LET sup == Support
    IN ~empty => \A largestIssued \in Issued :
          Walk(root, seqSupport, 0, largestIssued).tip.id = Counts!Preferred(sup, largestIssued)

\* The preference is conservative: when a validator goes on to a descendant of
\* the ledger it supported, the preferred ledger does not change to another
\* branch, and it only steps back while that validator is still uncommitted,
\* behind the largest sequence we issued.
PreferenceIsStable ==
    \A l \in ID : tipSupport(root, l) > 0 =>
       LET without == RemoveUnder(root, l, 1)
       IN \A d \in Counts!Descendants[l] :
             LET moved == InsertUnder(without, d, 1)
                 seqs == [seqSupport EXCEPT ![seq(l)] = @ - 1, ![seq(d)] = @ + 1]
             IN \A largestIssued \in Issued :
                   LET now == Walk(root, seqSupport, 0, largestIssued).tip.id
                       after == Walk(moved, seqs, 0, largestIssued).tip.id
                   IN \/ IsAncestor(now, after)
                      \/ IsAncestor(after, now) /\ seq(d) < largestIssued
=============================================================================
