------------------------------ MODULE NodeLoad ------------------------------
(***************************************************************************)
(* CNodeLoadManager: nodes and their loads, and the choice of a node.      *)
(* Every node that is not overloaded gets a range of numbers, the longer   *)
(* the less its load; a random number is looked up by bisection.  The      *)
(* ranges are kept until a node changes, also those that a choice with     *)
(* nodes to avoid has made.                                                *)
(***************************************************************************)
EXTENDS Naturals, SequencesExt, Functions

CONSTANTS
  NodeIds,   \* ids of nodes; the code answers 0 for "none"
  Loads,     \* loads that nodes report
  MaxLoad    \* MAX_LOAD_VALUE, 95

ASSUME IdsAreNotNone == NodeIds \subseteq Nat \ {0}
ASSUME LoadsAreNumbers == Loads \subseteq Nat /\ MaxLoad \in Nat

VARIABLES
  load,    \* node_info_map_: the load of every node that is listed
  ranges,  \* node_ranges_
  region,  \* region_
  stale,   \* create_range_
  picked,  \* history: the last choice, and the nodes it had to avoid
  avoided  \* history: the nodes that were avoided when the ranges were made

loadVars == <<load, ranges, region, stale, picked, avoided>>

NoChoice == [node |-> 0, avoid |-> {}]

LoadInit ==
  load = <<>> /\ ranges = <<>> /\ region = 0 /\ stale = TRUE /\ picked = NoChoice /\ avoided = {}

\* The nodes that may be chosen.
Eligible(avoid) == {n \in DOMAIN load \ avoid : load[n] <= MaxLoad}

Share(n) == MaxLoad - load[n] + 1

\* The nodes in the order of their ids, as std::map has them.
ById(nodes) ==
  CHOOSE s \in [1 .. Cardinality(nodes) -> nodes] : \A i, j \in DOMAIN s : i < j => s[i] < s[j]

\* A range for every eligible node, one behind the other.
NewRanges(avoid) ==
  LET nodes == ById(Eligible(avoid))
      upTo[i \in 0 .. Len(nodes)] == IF i = 0 THEN 0 ELSE upTo[i - 1] + Share(nodes[i])
  IN  [i \in 1 .. Len(nodes) |-> [node |-> nodes[i], min |-> upTo[i - 1], max |-> upTo[i] - 1]]

RegionOf(rs) == IF rs = <<>> THEN 0 ELSE rs[Len(rs)].max + 1

\* Where the bisection looks: positions are counted from 0, the upper one is included.
Middle(between) == (between.lo + between.hi) \div 2

\* A round of locate_server, which stops behind the last range or at the number's.
Narrowed(rs, seed, between) ==
  LET pos == Middle(between)
      r   == rs[pos + 1]
  IN  IF pos > Len(rs) - 1 \/ (r.min <= seed /\ seed <= r.max) THEN between
      ELSE IF r.max < seed THEN [between EXCEPT !.lo = pos + 1]
      ELSE [between EXCEPT !.hi = pos - 1]

\* locate_server: as many rounds as there are ranges are enough.
LocateServer(rs, seed) ==
  LET search[k \in 0 .. Len(rs)] ==
        IF k = 0 THEN [lo |-> 0, hi |-> Len(rs)] ELSE Narrowed(rs, seed, search[k - 1])
      pos == Middle(search[Len(rs)])
  IN  IF pos > Len(rs) - 1 THEN rs[Len(rs)].node ELSE rs[pos + 1].node

Choose(rs, seed, avoid) ==
  picked' = [node |-> IF rs = <<>> THEN 0 ELSE LocateServer(rs, seed), avoid |-> avoid]

-----------------------------------------------------------------------------
\* add_node, update_node
AddNode(n, l) ==
  /\ load' = [m \in DOMAIN load \cup {n} |-> IF m = n THEN l ELSE load[m]]
  /\ stale' = TRUE
  /\ picked' = NoChoice
  /\ UNCHANGED <<ranges, region, avoided>>

\* Mutant of DelNode: the ranges are taken to be up to date.
DelNodeKeepsRanges(n) ==
  /\ load' = Restrict(load, DOMAIN load \ {n})
  /\ picked' = NoChoice
  /\ UNCHANGED <<ranges, region, stale, avoided>>

DelNode(n) ==
  /\ load' = Restrict(load, DOMAIN load \ {n})
  /\ stale' = TRUE
  /\ picked' = NoChoice
  /\ UNCHANGED <<ranges, region, avoided>>

\* select_node: the ranges are built again only after a change of a node, so it also uses those
\* that a choice with nodes to avoid has left.  The form that returns the node's info looks the
\* chosen node up, and always finds it.
SelectNode ==
  LET rs == IF stale THEN NewRanges({}) ELSE ranges
  IN  /\ ranges' = rs /\ region' = RegionOf(rs)
      /\ stale' = FALSE /\ avoided' = IF stale THEN {} ELSE avoided
      /\ \E seed \in 0 .. IF rs = <<>> THEN 0 ELSE RegionOf(rs) - 1 : Choose(rs, seed, {})
      /\ UNCHANGED load

\* select_node with a set of nodes to avoid: the ranges are always built again, and kept.
SelectAvoiding(avoid) ==
  LET rs == NewRanges(avoid)
  IN  /\ ranges' = rs /\ region' = RegionOf(rs)
      /\ stale' = FALSE /\ avoided' = avoid
      /\ \E seed \in 0 .. IF rs = <<>> THEN 0 ELSE RegionOf(rs) - 1 : Choose(rs, seed, avoid)
      /\ UNCHANGED load

LoadNext ==
  \/ \E n \in NodeIds : DelNode(n) \/ \E l \in Loads : AddNode(n, l)
  \/ SelectNode
  \/ \E avoid \in SUBSET NodeIds : SelectAvoiding(avoid)

LoadSpec == LoadInit /\ [][LoadNext]_loadVars

-----------------------------------------------------------------------------
LoadTypeOK ==
  /\ DOMAIN load \subseteq NodeIds /\ \A n \in DOMAIN load : load[n] \in Loads
  /\ ranges \in Seq([node : NodeIds, min : Nat, max : Nat])
  /\ region \in Nat /\ stale \in BOOLEAN
  /\ picked \in [node : NodeIds \cup {0}, avoid : SUBSET NodeIds]
  /\ avoided \in SUBSET NodeIds

\* The node that is chosen is listed, not overloaded and not one to avoid.
PickIsEligible == picked.node # 0 => picked.node \in Eligible(picked.avoid)

\* The numbers of the region for which the bisection finds node n.
NumbersOf(n) == {seed \in 0 .. region - 1 : LocateServer(ranges, seed) = n}

\* Unless the ranges will be made anew, the next plain choice draws each node with the numbers
\* that its present load allows, and no other node; but the nodes that were to be avoided when
\* the ranges were made get none, whoever chooses now, until some node changes.
RangesAreShares ==
  ~stale => \A n \in NodeIds :
    Cardinality(NumbersOf(n)) = IF n \in Eligible(avoided) THEN Share(n) ELSE 0

\* The choice follows the loads that were reported last, although the ranges may be older than
\* it; of the nodes that the last choice with nodes to avoid left out, it says that they stay out.
ChoiceFollowsLoad == PickIsEligible /\ RangesAreShares

\* What create_range_ stands for by its comment, whether the table must be built again: while
\* it need not be, every node that may be chosen has the numbers that its load allows.  After
\* a choice with nodes to avoid the code does not keep this.
TableServesEveryNode ==
  ~stale => \A n \in Eligible({}) : Cardinality(NumbersOf(n)) = Share(n)
=============================================================================
