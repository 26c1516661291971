------------------------------ MODULE LpegKeys ------------------------------
(***************************************************************************)
(* The Lua values patterns of lpeg refer to (lptree.c).  A node of a tree  *)
(* holds a key, and the pattern's ktable the value of each key.  When      *)
(* patterns are put together their nodes are copied; the ktables are       *)
(* shared when one of them will do, and otherwise joined, and then the     *)
(* keys of the second pattern are corrected.  A ktable that is shared      *)
(* grows when a value is added to any of its patterns.                     *)
(*                                                                         *)
(* A pattern is here the sequence of its nodes that have a key: how they   *)
(* are nested tells nothing about keys.  "val" is the value the node was   *)
(* made with, which the code does not keep.                                *)
(***************************************************************************)
EXTENDS Integers, Sequences

CONSTANTS Values,       \* Lua values: functions, strings, names of rules
          NoValue,         \* the value of a node whose key is a number
          KEYS,         \* USHRT_MAX: a bound on keys, which the code has not
          MaxPatts,     \* bounds on the patterns made, and on the nodes of one
          MaxKeyNodes

ASSUME LpegKeysAssumption ==
  /\ KEYS \in Nat
  /\ NoValue \notin Values

VARIABLES ktables,       \* the ktables, each a sequence of values
          patts         \* the patterns, each its nodes and which ktable it has

keysVars == <<ktables, patts>>

NoTable == 0            \* the default environment, taken to have no indices

Keyed(tag, key, val) == [tag |-> tag, key |-> key, val |-> val]

ktablelen(env) == IF env = NoTable THEN 0 ELSE Len(ktables[env])

TableOf(env) == IF env = NoTable THEN <<>> ELSE ktables[env]

KeysInit == ktables = <<>> /\ patts = <<>>

New(nodes, env) ==
  /\ Len(nodes) <= MaxKeyNodes
  /\ patts' = Append(patts, [nodes |-> nodes, env |-> env])

(* A new pattern, with a ktable of its own. *)
NewTable(nodes, table) ==
  /\ Len(table) <= KEYS
  /\ ktables' = Append(ktables, table)
  /\ New(nodes, Len(ktables) + 1)

(* A value is added to the ktable of a new pattern, whose first node is to *)
(* refer to it.                                                            *)
addtoktable(env, tag, v, nodes) ==
  IF ktablelen(env) = 0 THEN NewTable(<<Keyed(tag, 1, v)>> \o nodes, <<v>>)
  ELSE /\ Len(ktables[env]) < KEYS
       /\ ktables' = [ktables EXCEPT ![env] = Append(@, v)]
       /\ New(<<Keyed(tag, Len(ktables[env]) + 1, v)>> \o nodes, env)

(* A bug: the numbers of select and argument captures are corrected too. *)
corrected_Numbers(node, n) ==
  IF node.key > 0 THEN Keyed(node.tag, node.key + n, node.val) ELSE node

corrected(node, n) ==
  IF node.key > 0 /\ node.tag # "number" THEN Keyed(node.tag, node.key + n, node.val) ELSE node

correctkeys(nodes, n) == [i \in DOMAIN nodes |-> corrected(nodes[i], n)]

-----------------------------------------------------------------------------
(* lp_V, lp_constcapture, lp_backref, lp_matchtime of a function. *)
NewLeaf(tag, v) ==
  addtoktable(NoTable, tag, v, <<>>)

(* lp_argcapture *)
NewNumber(n) ==
  /\ UNCHANGED ktables
  /\ New(<<Keyed("number", n, NoValue)>>, NoTable)

(* The value goes to the ktable of the old pattern. *)
capture_aux(p, tag, v) ==
  addtoktable(patts[p].env, tag, v, patts[p].nodes)

(* copyktable: a new root shares the ktable of its pattern. *)
newroot1sib(p, nodes) == UNCHANGED ktables /\ New(nodes, patts[p].env)

(* lp_divcapture with a number *)
SelectCapture(p, n) == newroot1sib(p, <<Keyed("number", n, NoValue)>> \o patts[p].nodes)

(* lp_star: the nodes are copied more than once. *)
lp_star(p) == newroot1sib(p, patts[p].nodes \o patts[p].nodes)

(* newroot2sib with joinktables, and lp_sub, which puts its second         *)
(* argument first.                                                         *)
newroot2sib(p, q) ==
  LET e1 == patts[p].env
      e2 == patts[q].env
      n1 == ktablelen(e1)
      n2 == ktablelen(e2)
      nodes(n) == patts[p].nodes \o correctkeys(patts[q].nodes, n)
  IN IF n1 # 0 /\ n2 # 0 /\ e1 # e2
     THEN NewTable(nodes(n1), ktables[e1] \o ktables[e2])
     ELSE UNCHANGED ktables /\ New(nodes(0), IF n2 = 0 \/ e1 = e2 THEN e1 ELSE e2)

(* A grammar as it is built: its nodes, and its ktable. *)
EmptyGrammar == [nodes |-> <<>>, table |-> <<>>]

(* The ktable of a rule goes behind that of the grammar, and its keys with *)
(* it.                                                                     *)
mergektable(g, p) ==
  LET table == TableOf(patts[p].env)
  IN [nodes |-> correctkeys(patts[p].nodes, IF table = <<>> THEN 0 ELSE Len(g.table)),
      table |-> g.table \o table]

(* buildgrammar for one rule. *)
WithRule(g, p, name) ==
  [mergektable(g, p) EXCEPT !.nodes = g.nodes \o <<Keyed("newrule", 0, name)>> \o @]

(* The key of the last call of a rule; 0 when it is not called. *)
KeyOfRule(g, name) ==
  LET opens == {i \in DOMAIN g.nodes : g.nodes[i].tag = "opencall"
                                       /\ g.table[g.nodes[i].key] = name}
  IN IF opens = {} THEN 0 ELSE g.nodes[CHOOSE i \in opens : \A j \in opens : j <= i].key

(* finalfix: each open call finds its rule by the name its key refers to,  *)
(* and gives the rule that key.                                            *)
fixonecall(g, node) ==
  CASE node.tag = "opencall" -> Keyed("call", node.key, node.val)
    [] node.tag = "newrule"  -> Keyed("rule", KeyOfRule(g, node.val), node.val)
    [] OTHER -> node

Fixed(g) == [i \in DOMAIN g.nodes |-> fixonecall(g, g.nodes[i])]

AllCallsDefined(g, names) ==
  \A i \in DOMAIN g.nodes :
    g.nodes[i].tag = "opencall" => g.table[g.nodes[i].key] \in names

(* The first rule gets a key even when it is not called (initialrulename). *)
newgrammar(g, names, first) ==
  LET nodes == Fixed(g)
  IN /\ AllCallsDefined(g, names)
     /\ IF nodes[1].key # 0 THEN NewTable(nodes, g.table)
        ELSE NewTable([nodes EXCEPT ![1] = Keyed("rule", Len(g.table) + 1, first)],
                      Append(g.table, first))

KeysNext ==
  /\ Len(patts) < MaxPatts
  /\ \/ \E v \in Values, tag \in {"opencall", "capture"} : NewLeaf(tag, v)
     \/ NewNumber(1)
     \/ \E p \in DOMAIN patts :
          \/ \E v \in Values : capture_aux(p, "capture", v)
          \/ SelectCapture(p, 1)
          \/ lp_star(p)
          \/ \E q \in DOMAIN patts : newroot2sib(p, q)
          \/ \E v \in Values : newgrammar(WithRule(EmptyGrammar, p, v), {v}, v)
          \/ \E q \in DOMAIN patts, v, w \in Values :
               /\ v # w
               /\ newgrammar(WithRule(WithRule(EmptyGrammar, p, v), q, w), {v, w}, v)

KeysSpec == KeysInit /\ [][KeysNext]_keysVars
-----------------------------------------------------------------------------
(* What the key of a node refers to is the value it was made with. *)
KeyIsRight(node, table) ==
  CASE node.tag = "number" -> node.key = 1
    [] node.tag = "rule"   -> node.key = 0 \/ (node.key \in DOMAIN table /\ table[node.key] = node.val)
    [] OTHER -> node.key \in DOMAIN table /\ table[node.key] = node.val

(* Whatever patterns were made before and after, from it or from others,   *)
(* the key of a node finds the value the node was made with, and a number  *)
(* stays the number it is (addtoktable, joinktables, mergektable and       *)
(* correctkeys).                                                           *)
KeysAreTheirs ==
  \A p \in DOMAIN patts : \A i \in DOMAIN patts[p].nodes :
    KeyIsRight(patts[p].nodes[i], TableOf(patts[p].env))
=============================================================================
