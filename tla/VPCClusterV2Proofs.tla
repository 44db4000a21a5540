------------------------- MODULE VPCClusterV2Proofs --------------------------
(***************************************************************************)
(* Proofs about VPCClusterV2, for every set of specs, any subnets, groups  *)
(* and load balancers, and any failures.                                   *)
(***************************************************************************)
EXTENDS VPCClusterV2, TLAPS

----------------------------------------------------------------------------
(* The plan.                                                               *)

\* What a plan consists of, once the VPC and the image are past.
Parts == ({"control", "worker"} \X Subnets) \cup ({"group", "rules"} \X Groups) \cup ({"lb"} \X LBs)
AllParts == {<<"vpc", "vpc">>, <<"image", "image">>} \cup Parts

\* A list of members of T, with its length.
ListOf(T, p, n) == p \in Seq(T) /\ Len(p) = n /\ n \in Nat
Concat(p, q) == p \o q

\* One item for each name, in order.
LEMMA ItemsOfFacts ==
    ASSUME NEW kind, NEW T, NEW names, NEW n, ListOf(T, names, n)
    PROVE  /\ ListOf({kind} \X T, ItemsOf(kind, names), n)
           /\ \A i \in 1..n : ItemsOf(kind, names)[i] = <<kind, names[i]>> /\ names[i] \in T
BY DEF ItemsOf, ListOf

\* A list over some set is one over a larger set.
LEMMA Subsequences ==
    ASSUME NEW S, NEW T, S \subseteq T, NEW p, NEW n, ListOf(S, p, n)
    PROVE  ListOf(T, p, n)
BY DEF ListOf

\* The members of a list are those of its range.
LEMMA ListRange ==
    ASSUME NEW T, NEW p, NEW n, ListOf(T, p, n)
    PROVE  /\ \A i \in 1..n : p[i] \in Range(p)
           /\ \A x \in Range(p) : \E i \in 1..n : p[i] = x
BY DEF ListOf, Range

\* Appending one part of a plan to another.
LEMMA Appended ==
    ASSUME NEW T, NEW p, NEW n \in Nat, NEW q, NEW m \in Nat, n <= m,
           ListOf(T, p, n), ListOf(T, q, m - n)
    PROVE  /\ ListOf(T, Concat(p, q), m)
           /\ \A k \in 1..n : Concat(p, q)[k] = p[k]
           /\ \A k \in (n + 1)..m : Concat(p, q)[k] = q[k - n]
BY DEF ListOf, Concat

\* The planes have subnets, of the spec or of the zones.
LEMMA SubnetsOfFacts ==
    ASSUME NEW s \in Specs
    PROVE  /\ ControlPlaneSubnets(s) \in Seq(Subnets)
           /\ WorkerSubnets(s) \in Seq(Subnets)
BY SpecAssumption, NetworkAssumption DEF ControlPlaneSubnets, WorkerSubnets, SubnetsOf, SpecType

\* The places of the parts a to f in a plan: each ends at a number n.
Placed(p, a, b, c, d, e, f, na, nb, nc, nd, ne, nf) ==
    /\ \A k \in 1..na : p[k] = a[k]
    /\ \A k \in (na + 1)..nb : p[k] = b[k - na]
    /\ \A k \in (nb + 1)..nc : p[k] = c[k - nb]
    /\ \A k \in (nc + 1)..nd : p[k] = d[k - nc]
    /\ \A k \in (nd + 1)..ne : p[k] = e[k - nd]
    /\ \A k \in (ne + 1)..nf : p[k] = f[k - ne]

LEMMA Places ==
    ASSUME NEW T, NEW a, NEW b, NEW c, NEW d, NEW e, NEW f,
           NEW na, NEW nb, NEW nc, NEW nd, NEW ne, NEW nf,
           ListOf(T, a, na), ListOf(T, b, nb - na), ListOf(T, c, nc - nb), ListOf(T, d, nd - nc),
           ListOf(T, e, ne - nd), ListOf(T, f, nf - ne),
           na \in Nat, nb \in Nat, nc \in Nat, nd \in Nat, ne \in Nat, nf \in Nat,
           na <= nb, nb <= nc, nc <= nd, nd <= ne, ne <= nf, 
           NEW p, p = Concat(Concat(Concat(Concat(Concat(a, b), c), d), e), f)
    PROVE  ListOf(T, p, nf) /\ Placed(p, a, b, c, d, e, f, na, nb, nc, nd, ne, nf)
<1>1. PICK p2 : p2 = Concat(a, b)
  OBVIOUS
<1>2. ListOf(T, p2, nb) /\ (\A i \in 1..na : p2[i] = a[i]) /\ (\A k \in (na + 1)..nb : p2[k] = b[k - na])
  BY <1>1, Appended
<1>3. PICK p3 : p3 = Concat(p2, c)
  OBVIOUS
<1>4. ListOf(T, p3, nc) /\ (\A i \in 1..nb : p3[i] = p2[i]) /\ (\A k \in (nb + 1)..nc : p3[k] = c[k - nb])
  BY <1>2, <1>3, Appended
<1>5. PICK p4 : p4 = Concat(p3, d)
  OBVIOUS
<1>6. ListOf(T, p4, nd) /\ (\A i \in 1..nc : p4[i] = p3[i]) /\ (\A k \in (nc + 1)..nd : p4[k] = d[k - nc])
  BY <1>4, <1>5, Appended
<1>7. PICK p5 : p5 = Concat(p4, e)
  OBVIOUS
<1>8. ListOf(T, p5, ne) /\ (\A i \in 1..nd : p5[i] = p4[i]) /\ (\A k \in (nd + 1)..ne : p5[k] = e[k - nd])
  BY <1>6, <1>7, Appended
<1>9. p = Concat(p5, f)
  BY <1>1, <1>3, <1>5, <1>7
<1>10. ListOf(T, p, nf) /\ (\A i \in 1..ne : p[i] = p5[i]) /\ (\A k \in (ne + 1)..nf : p[k] = f[k - ne])
  BY <1>8, <1>9, Appended
<1>11. \A k \in 1..na : p[k] = a[k]
  BY <1>2, <1>4, <1>6, <1>8, <1>10
<1>12. \A k \in (na + 1)..nb : p[k] = b[k - na]
  BY <1>2, <1>4, <1>6, <1>8, <1>10
<1>13. \A k \in (nb + 1)..nc : p[k] = c[k - nb]
  BY <1>4, <1>6, <1>8, <1>10
<1>14. \A k \in (nc + 1)..nd : p[k] = d[k - nc]
  BY <1>6, <1>8, <1>10
<1>15. \A k \in (nd + 1)..ne : p[k] = e[k - nd]
  BY <1>8, <1>10
<1>. QED BY <1>10, <1>11, <1>12, <1>13, <1>14, <1>15 DEF Placed

\* The part b of a plan for a list of names, at the places from n + 1 to m.
IsPart(b, kind, names, T, n, m) ==
    /\ n <= m /\ (Len(names) > 0 => n < m)
    /\ ListOf(AllParts, b, m - n)
    /\ \A k \in (n + 1)..m : /\ b[k - n] = <<kind, names[k - n]>>
                             /\ names[k - n] \in Range(names) /\ names[k - n] \in T
    /\ \A x \in Range(names) : \E k \in (n + 1)..m : b[k - n] = <<kind, x>>

LEMMA PartOfPlan ==
    ASSUME NEW kind, NEW T, NEW names, ListOf(T, names, Len(names)), {kind} \X T \subseteq AllParts, NEW n \in Nat
    PROVE  \E m \in Nat : IsPart(ItemsOf(kind, names), kind, names, T, n, m)
<1>1. Len(names) \in Nat
  BY DEF ListOf
<1>2. PICK l \in Nat : l = Len(names)
  BY <1>1
<1>3. /\ ListOf({kind} \X T, ItemsOf(kind, names), l)
      /\ \A i \in 1..l : ItemsOf(kind, names)[i] = <<kind, names[i]>> /\ names[i] \in T
  BY <1>2, ItemsOfFacts
<1>4. ListOf(AllParts, ItemsOf(kind, names), l)
  BY <1>3, Subsequences
<1>5. /\ \A i \in 1..l : names[i] \in Range(names)
      /\ \A x \in Range(names) : \E i \in 1..l : names[i] = x
  BY <1>2, ListRange
<1>6. PICK m \in Nat : m = n + l
  OBVIOUS
<1>7. m - n = l /\ n <= m /\ (l > 0 => n < m)
  BY <1>6
<1>8. \A k \in (n + 1)..m : k - n \in 1..l
  BY <1>6
<1>9. ASSUME NEW x \in Range(names) PROVE \E k \in (n + 1)..m : ItemsOf(kind, names)[k - n] = <<kind, x>>
  <2>1. PICK i \in 1..l : names[i] = x
    BY <1>5
  <2>2. PICK k \in (n + 1)..m : k - n = i
    <3>1. n + i \in (n + 1)..m /\ (n + i) - n = i
      BY <1>6
    <3>. QED BY <3>1
  <2>. QED BY <1>3, <2>1, <2>2
<1>. QED BY <1>2, <1>3, <1>4, <1>5, <1>7, <1>8, <1>9 DEF IsPart

\* A plan begins with the VPC and the image; its load balancers come last; the
\* subnets, groups and load balancers are the ones of the spec.
LEMMA PlanOfFacts ==
    ASSUME NEW s \in Specs
    PROVE  LET p == PlanOf(s) IN
           /\ p \in Seq(AllParts) /\ Len(p) \in Nat /\ Len(p) > 2
           /\ p[1] = <<"vpc", "vpc">> /\ p[2] = <<"image", "image">>
           /\ \A k \in 3..Len(p) : p[k] \in Parts
           /\ \A k \in 1..Len(p) : p[k][1] = "control" => p[k][2] \in Range(ControlPlaneSubnets(s))
           /\ \A j, k \in 1..Len(p) : p[j][1] = "lb" /\ p[k][1] # "lb" => k < j
           /\ \A x \in Range(ControlPlaneSubnets(s)) : \E k \in 1..Len(p) : p[k] = <<"control", x>>
           /\ \A x \in Range(WorkerSubnets(s)) : \E k \in 1..Len(p) : p[k] = <<"worker", x>>
           /\ \A x \in Range(s.groups) : \E k \in 1..Len(p) : p[k] = <<"group", x>>
           /\ \A x \in LBs : \E k \in 1..Len(p) : p[k] = <<"lb", x>>
<1>1. /\ {"control"} \X Subnets \subseteq AllParts /\ {"worker"} \X Subnets \subseteq AllParts
      /\ {"group"} \X Groups \subseteq AllParts /\ {"rules"} \X Groups \subseteq AllParts
      /\ {"lb"} \X LBs \subseteq AllParts
  BY DEF AllParts, Parts
<1>2. PICK cs, ws : cs = ControlPlaneSubnets(s) /\ ws = WorkerSubnets(s)
  OBVIOUS
<1>3. ListOf(Subnets, cs, Len(cs)) /\ ListOf(Subnets, ws, Len(ws))
  BY <1>2, SubnetsOfFacts DEF ListOf
<1>4. PICK gs : gs = s.groups /\ ListOf(Groups, gs, Len(gs))
  BY SpecAssumption DEF SpecType, ListOf
<1>5. ListOf(LBs, LoadBalancers, Len(LoadBalancers)) /\ Len(LoadBalancers) > 0
  <2>1. LoadBalancers \in Seq(LBs) /\ Len(LoadBalancers) \in 1..2
    BY NetworkAssumption
  <2>. QED BY <2>1 DEF ListOf
<1>6. PICK a : a = <<<<"vpc", "vpc">>, <<"image", "image">>>>
  OBVIOUS
<1>7. a[1] = <<"vpc", "vpc">> /\ a[2] = <<"image", "image">> /\ ListOf(AllParts, a, 2)
  BY <1>6 DEF AllParts, ListOf
<1>8. PICK b, c, d, e, f : /\ b = ItemsOf("control", cs) /\ c = ItemsOf("worker", ws)
                           /\ d = ItemsOf("group", gs) /\ e = ItemsOf("rules", gs)
                           /\ f = ItemsOf("lb", LoadBalancers)
  OBVIOUS
<1>9. PICK nb \in Nat : IsPart(b, "control", cs, Subnets, 2, nb)
  BY <1>1, <1>3, <1>8, PartOfPlan
<1>10. PICK nc \in Nat : IsPart(c, "worker", ws, Subnets, nb, nc)
  BY <1>1, <1>3, <1>8, PartOfPlan
<1>11. PICK nd \in Nat : IsPart(d, "group", gs, Groups, nc, nd)
  BY <1>1, <1>4, <1>8, PartOfPlan
<1>12. PICK ne \in Nat : IsPart(e, "rules", gs, Groups, nd, ne)
  BY <1>1, <1>4, <1>8, PartOfPlan
<1>13. PICK nf \in Nat : IsPart(f, "lb", LoadBalancers, LBs, ne, nf)
  BY <1>1, <1>5, <1>8, PartOfPlan
<1>14. PICK p : p = Concat(Concat(Concat(Concat(Concat(a, b), c), d), e), f)
  OBVIOUS
<1>15. PlanOf(s) = p
  BY <1>2, <1>4, <1>6, <1>8, <1>14 DEF PlanOf, Concat
<1>0. 2 <= nb /\ nb <= nc /\ nc <= nd /\ nd <= ne /\ ne < nf
  BY <1>5, <1>9, <1>10, <1>11, <1>12, <1>13 DEF IsPart
<1>16. ListOf(AllParts, p, nf) /\ Placed(p, a, b, c, d, e, f, 2, nb, nc, nd, ne, nf)
  <2>1. /\ ListOf(AllParts, b, nb - 2) /\ ListOf(AllParts, c, nc - nb) /\ ListOf(AllParts, d, nd - nc)
        /\ ListOf(AllParts, e, ne - nd) /\ ListOf(AllParts, f, nf - ne)
    BY <1>9, <1>10, <1>11, <1>12, <1>13 DEF IsPart
  <2>2. 2 \in Nat /\ ne <= nf
    BY <1>0
  <2>. QED BY <1>0, <1>7, <1>14, <2>1, <2>2, Places
<1>17. p \in Seq(AllParts) /\ Len(p) = nf
  BY <1>16 DEF ListOf
<1>18. p[1] = <<"vpc", "vpc">> /\ p[2] = <<"image", "image">>
  BY <1>7, <1>16 DEF Placed
<1>19. ASSUME NEW k \in 1..nf
       PROVE  /\ k >= 3 => p[k] \in Parts
              /\ p[k][1] = "control" => p[k][2] \in Range(cs)
              /\ p[k][1] = "lb" <=> k > ne
  <2>1. \/ k = 1 \/ k = 2 \/ k \in 3..nb \/ k \in (nb + 1)..nc \/ k \in (nc + 1)..nd
        \/ k \in (nd + 1)..ne \/ k \in (ne + 1)..nf
    OBVIOUS
  <2>2. CASE k = 1 \/ k = 2
    BY <1>0, <1>18, <2>2
  <2>3. CASE k \in 3..nb
    <3>1. p[k] = <<"control", cs[k - 2]>> /\ cs[k - 2] \in Range(cs) /\ cs[k - 2] \in Subnets
      BY <1>9, <1>16, <2>3 DEF IsPart, Placed
    <3>2. ~(k > ne)
      BY <1>0, <2>3
    <3>. QED BY <3>1, <3>2 DEF Parts
  <2>4. CASE k \in (nb + 1)..nc
    <3>1. p[k] = <<"worker", ws[k - nb]>> /\ ws[k - nb] \in Subnets
      BY <1>10, <1>16, <2>4 DEF IsPart, Placed
    <3>2. ~(k > ne)
      BY <1>0, <2>4
    <3>. QED BY <3>1, <3>2 DEF Parts
  <2>5. CASE k \in (nc + 1)..nd
    <3>1. p[k] = <<"group", gs[k - nc]>> /\ gs[k - nc] \in Groups
      BY <1>11, <1>16, <2>5 DEF IsPart, Placed
    <3>2. ~(k > ne)
      BY <1>0, <2>5
    <3>. QED BY <3>1, <3>2 DEF Parts
  <2>6. CASE k \in (nd + 1)..ne
    <3>1. p[k] = <<"rules", gs[k - nd]>> /\ gs[k - nd] \in Groups
      BY <1>12, <1>16, <2>6 DEF IsPart, Placed
    <3>. QED BY <2>6, <3>1 DEF Parts
  <2>7. CASE k \in (ne + 1)..nf
    <3>1. p[k] = <<"lb", LoadBalancers[k - ne]>> /\ LoadBalancers[k - ne] \in LBs
      BY <1>13, <1>16, <2>7 DEF IsPart, Placed
    <3>. QED BY <2>7, <3>1 DEF Parts
  <2>. QED BY <2>1, <2>2, <2>3, <2>4, <2>5, <2>6, <2>7
<1>20. \A j, k \in 1..nf : p[j][1] = "lb" /\ p[k][1] # "lb" => k < j
  BY <1>19
<1>21. \A x \in Range(cs) : \E k \in 1..nf : p[k] = <<"control", x>>
  <2>1. SUFFICES ASSUME NEW x \in Range(cs) PROVE \E k \in 1..nf : p[k] = <<"control", x>>
    OBVIOUS
  <2>2. PICK k \in (2 + 1)..nb : b[k - 2] = <<"control", x>>
    BY <1>9 DEF IsPart
  <2>3. k \in 1..nf
    BY <1>0
  <2>4. p[k] = b[k - 2]
    BY <1>16 DEF Placed
  <2>. QED BY <2>2, <2>3, <2>4
<1>22. \A x \in Range(ws) : \E k \in 1..nf : p[k] = <<"worker", x>>
  <2>1. SUFFICES ASSUME NEW x \in Range(ws) PROVE \E k \in 1..nf : p[k] = <<"worker", x>>
    OBVIOUS
  <2>2. PICK k \in (nb + 1)..nc : c[k - nb] = <<"worker", x>>
    BY <1>10 DEF IsPart
  <2>3. k \in 1..nf
    BY <1>0
  <2>4. p[k] = c[k - nb]
    BY <1>16 DEF Placed
  <2>. QED BY <2>2, <2>3, <2>4
<1>23. \A x \in Range(gs) : \E k \in 1..nf : p[k] = <<"group", x>>
  <2>1. SUFFICES ASSUME NEW x \in Range(gs) PROVE \E k \in 1..nf : p[k] = <<"group", x>>
    OBVIOUS
  <2>2. PICK k \in (nc + 1)..nd : d[k - nc] = <<"group", x>>
    BY <1>11 DEF IsPart
  <2>3. k \in 1..nf
    BY <1>0
  <2>4. p[k] = d[k - nc]
    BY <1>16 DEF Placed
  <2>. QED BY <2>2, <2>3, <2>4
<1>24. \A x \in LBs : \E k \in 1..nf : p[k] = <<"lb", x>>
  <2>1. SUFFICES ASSUME NEW x \in LBs PROVE \E k \in 1..nf : p[k] = <<"lb", x>>
    OBVIOUS
  <2>2. PICK k \in (ne + 1)..nf : f[k - ne] = <<"lb", x>>
    BY <1>13 DEF IsPart, LBs
  <2>3. k \in 1..nf
    BY <1>0
  <2>4. p[k] = f[k - ne]
    BY <1>16 DEF Placed
  <2>. QED BY <2>2, <2>3, <2>4
<1>25. \A k \in 3..nf : p[k] \in Parts
  BY <1>19
<1>26. nf \in Nat /\ nf > 2
  BY <1>0
<1>. QED BY <1>2, <1>4, <1>15, <1>17, <1>18, <1>19, <1>20, <1>21, <1>22, <1>23, <1>24, <1>25, <1>26

\* What the item at place k can be.
IsItem(k) ==
    LET kind == Plan[k][1]
        name == Plan[k][2]
    IN /\ Plan[k] \in Items /\ Plan[k] = <<kind, name>> /\ StageOf(kind) \in Stages
       /\ kind \in {"vpc", "image", "control", "worker", "group", "rules", "lb"}
       /\ (k = 1 <=> kind = "vpc") /\ (k = 2 <=> kind = "image")
       /\ kind \in Kinds => name = kind
       /\ kind \in {"control", "worker"} => name \in Subnets
       /\ kind \in {"group", "rules"} => name \in Groups
       /\ kind = "lb" => name \in LBs

LEMMA PlanFacts ==
    ASSUME spec \in Specs
    PROVE  /\ Len(Plan) \in Nat /\ Len(Plan) > 2 /\ DOMAIN Plan = 1..Len(Plan)
           /\ \A k \in 1..Len(Plan) : IsItem(k)
           /\ \A i \in Range(Plan) : i \in Items
<1>1. Plan = PlanOf(spec)
  BY DEF Plan, Plans
<1>2. /\ Plan \in Seq(AllParts) /\ Len(Plan) \in Nat /\ Len(Plan) > 2
      /\ Plan[1] = <<"vpc", "vpc">> /\ Plan[2] = <<"image", "image">>
      /\ \A k \in 3..Len(Plan) : Plan[k] \in Parts
  BY <1>1, PlanOfFacts
<1>3. DOMAIN Plan = 1..Len(Plan)
  BY <1>2
<1>4. /\ \A k \in 1..Len(Plan) : Plan[k] \in Range(Plan)
      /\ \A i \in Range(Plan) : i \in Items
  BY <1>3 DEF Items, Plan, Range
<1>5. ASSUME NEW k \in 1..Len(Plan) PROVE IsItem(k)
  <2>1. Plan[k] \in Items
    BY <1>4
  <2>2. CASE k = 1
    BY <1>2, <2>1, <2>2 DEF IsItem, StageOf, Stages, Kinds
  <2>3. CASE k = 2
    BY <1>2, <2>1, <2>3 DEF IsItem, StageOf, Stages, Kinds
  <2>4. CASE k \in 3..Len(Plan)
    <3>1. PICK i \in Parts : i = Plan[k]
      BY <1>2, <2>4
    <3>2. k # 1 /\ k # 2
      BY <2>4
    <3>3. CASE i \in {"control", "worker"} \X Subnets
      BY <2>1, <3>1, <3>2, <3>3 DEF IsItem, StageOf, Stages, Kinds
    <3>4. CASE i \in {"group", "rules"} \X Groups
      BY <2>1, <3>1, <3>2, <3>4 DEF IsItem, StageOf, Stages, Kinds
    <3>5. CASE i \in {"lb"} \X LBs
      BY <2>1, <3>1, <3>2, <3>5 DEF IsItem, StageOf, Stages, Kinds
    <3>. QED BY <3>3, <3>4, <3>5 DEF Parts
  <2>. QED BY <1>2, <2>2, <2>3, <2>4
<1>. QED BY <1>2, <1>3, <1>4, <1>5

\* The current item.
Sort == {"vpc", "image", "control", "worker", "group", "rules", "lb"}
LEMMA ItemFacts ==
    ASSUME spec \in Specs, at \in 1..Len(Plan)
    PROVE  /\ Plan[at] \in Items /\ Plan[at] = <<Kind, Name>> /\ StageOf(Kind) \in Stages /\ Kind \in Sort
           /\ (at = 1 <=> Kind = "vpc") /\ (at = 2 <=> Kind = "image")
           /\ Kind \in Kinds => Name = Kind
           /\ Kind \in {"control", "worker"} => Name \in Subnets /\ Zone[Name] \in Gateways
           /\ Kind \in {"group", "rules"} => Name \in Groups
           /\ Kind = "lb" => Name \in LBs
           /\ Name \in Kinds \cup Things
<1>1. IsItem(at)
  BY PlanFacts
<1>2. /\ Plan[at] \in Items /\ Plan[at] = <<Kind, Name>> /\ StageOf(Kind) \in Stages /\ Kind \in Sort
      /\ (at = 1 <=> Kind = "vpc") /\ (at = 2 <=> Kind = "image")
      /\ Kind \in Kinds => Name = Kind
      /\ Kind \in {"control", "worker"} => Name \in Subnets
      /\ Kind \in {"group", "rules"} => Name \in Groups
      /\ Kind = "lb" => Name \in LBs
  BY <1>1 DEF IsItem, Kind, Name, Sort
<1>3. Name \in Subnets => Zone[Name] \in Gateways
  BY DEF Subnets, Gateways, Range
<1>. QED BY <1>2, <1>3 DEF Sort, Kinds, Things

----------------------------------------------------------------------------
(* Types.                                                                  *)

LEMMA FaultArithmetic ==
    ASSUME faults \in 0..MaxFaults
    PROVE /\ NoFault => faults' \in 0..MaxFaults
          /\ \A kind : Fault(kind) => faults' \in 0..MaxFaults
BY BoundAssumption DEF NoFault, Fault

\* A fresh object is well formed.
LEMMA NewObjectType == NewObject \in ObjectType
BY BoundAssumption DEF NewObject, ObjectType, Status, States

\* Objects that agree on everything but the finalizer, the resource group and
\* the conditions.
Alike(o, u) == o.id = u.id /\ o.rec = u.rec /\ o.ready = u.ready /\ o.host = u.host

\* Writing to an object.
LEMMA ObjectUpdates ==
    ASSUME NEW o \in ObjectType
    PROVE  /\ \A b \in BOOLEAN : LET u == [o EXCEPT !.finalizer = b] IN u \in ObjectType /\ Alike(u, o) /\ u.finalizer = b
           /\ Grouped(o) \in ObjectType /\ Alike(Grouped(o), o)
           /\ \A g \in Stages, v \in Status : LET u == [o EXCEPT !.cond[g] = v] IN u \in ObjectType /\ Alike(u, o)
<1>1. ASSUME NEW b \in BOOLEAN
      PROVE LET u == [o EXCEPT !.finalizer = b] IN u \in ObjectType /\ Alike(u, o) /\ u.finalizer = b
  BY DEF ObjectType, Alike
<1>2. Grouped(o) \in ObjectType /\ Alike(Grouped(o), o)
  BY DEF ObjectType, Alike, Grouped
<1>3. ASSUME NEW g \in Stages, NEW v \in Status
      PROVE LET u == [o EXCEPT !.cond[g] = v] IN u \in ObjectType /\ Alike(u, o)
  BY DEF ObjectType, Alike
<1>. QED BY <1>1, <1>2, <1>3

\* Recording the current item.
LEMMA Records ==
    ASSUME NEW o \in ObjectType, Plan[at] \in Items, NEW st \in States, NEW k \in Kinds, NEW n \in 0..MaxCopies
    PROVE  /\ LET u == Recorded(o, st) IN
              /\ u \in ObjectType /\ u.id = o.id /\ u.ready = o.ready /\ u.host = o.host
              /\ u.rec = [o.rec EXCEPT ![Plan[at]] = st]
           /\ LET u == Identified(o, k, n, st) IN
              /\ u \in ObjectType /\ u.id = [o.id EXCEPT ![k] = n] /\ u.ready = o.ready /\ u.host = o.host
              /\ u.rec = [o.rec EXCEPT ![Plan[at]] = st]
<1>1. LET u == Recorded(o, st) IN
              /\ u \in ObjectType /\ u.id = o.id /\ u.ready = o.ready /\ u.host = o.host
              /\ u.rec = [o.rec EXCEPT ![Plan[at]] = st]
  BY DEF ObjectType, Recorded
<1>2. ASSUME NEW u \in ObjectType
      PROVE  LET v == [u EXCEPT !.id[k] = n] IN
             /\ v \in ObjectType /\ v.id = [u.id EXCEPT ![k] = n] /\ v.ready = u.ready /\ v.host = u.host
             /\ v.rec = u.rec
  BY DEF ObjectType
<1>. QED BY <1>1, <1>2 DEF Identified

\* The end of an item.
Advances(rq) ==
    \/ /\ at < Len(Plan) /\ StageOf(Plan[at + 1][1]) = StageOf(Kind)
       /\ pc' = "find" /\ at' = at + 1 /\ wait' = (wait \/ rq)
    \/ pc' = "patch" /\ at' = at /\ wait' = FALSE /\ (wait \/ rq)
    \/ at < Len(Plan) /\ ~wait /\ ~rq /\ pc' = "find" /\ at' = at + 1 /\ wait' = FALSE
    \/ at = Len(Plan) /\ ~wait /\ ~rq /\ pc' = "host" /\ at' = at /\ wait' = FALSE

LEMMA DoneFacts ==
    ASSUME spec \in Specs, at \in 1..Len(Plan), NEW o \in ObjectType, NEW rq \in BOOLEAN, Done(o, rq), wait \in BOOLEAN
    PROVE  local' \in ObjectType /\ Alike(local', o) /\ Advances(rq)
<1>1. StageOf(Kind) \in Stages /\ Len(Plan) \in Nat
  BY ItemFacts, PlanFacts
<1>2. StageDone(o) \in ObjectType /\ Alike(StageDone(o), o) /\ Alike(o, o)
  BY DEF StageDone, ObjectType, Status, Alike
<1>3. local' \in ObjectType /\ Alike(local', o)
  BY <1>2 DEF Done
<1>4. Advances(rq)
  BY <1>1 DEF Done, Advances, LastOfStage
<1>. QED BY <1>3, <1>4

LEMMA FailsFacts ==
    ASSUME spec \in Specs, at \in 1..Len(Plan), NEW o \in ObjectType, Fails(o)
    PROVE  local' \in ObjectType /\ Alike(local', o) /\ pc' = "patch" /\ at' = at /\ wait' = wait
<1>1. StageOf(Kind) \in Stages
  BY ItemFacts
<1>2. [o EXCEPT !.cond[StageOf(Kind)] = "false"] \in ObjectType
      /\ Alike([o EXCEPT !.cond[StageOf(Kind)] = "false"], o)
  BY <1>1, ObjectUpdates DEF Status
<1>. QED BY <1>2 DEF Fails

Busy == pc \notin {"idle", "patch"}
Subnetwork == {"gateway", "createGateway", "tagGateway"}

\* Where the controller can stand, and that what the spec refers to exists.
PlaceInv ==
    /\ Busy => at \in 1..Len(Plan)
    /\ pc \in Subnetwork => Kind \in {"control", "worker"}
    /\ pc = "host" => at = Len(Plan)
    /\ pc \in {"create", "tag"} => Kind # "rules"
    /\ \A k \in Kinds : Ref[k] = "given" => copies[k] # <<>>

TypeInv == TypeOK /\ PlaceInv

\* An item that needs nothing more: recorded as available, and there.
IsThing(i) == i[1] \in {"control", "worker", "group", "lb"}
Exempt(i) == i[1] = "rules" \/ (i[1] = "image" /\ spec.image = "none")
Settled(rec, c, i) == (Exempt(i) \/ rec[i] = "available") /\ (IsThing(i) => c[i[2]] = "available")

\* A group is settled from the moment it is created.
TagInv == pc = "tag" /\ Kind = "group" => Settled(local.rec, cloud, Plan[at])

\* The steps that go through the plan.
ItemSteps ==
    \/ FindVPC \/ CreateVPC \/ FindCustomImage \/ CreateCustomImage
    \/ FindSubnet \/ FindPublicGateway \/ CreatePublicGateway \/ TagPublicGateway
    \/ CreateSubnet \/ FindSecurityGroup \/ CreateSecurityGroup
    \/ ReconcileSecurityGroupRules \/ FindLoadBalancer \/ CreateLoadBalancer
    \/ TagResource

\* How an item step leaves the item: by an error, within it, or at its end.
Ended == pc' = "patch" /\ at' = at /\ wait' = wait
Moved ==
    /\ at' = at /\ wait' = wait /\ Kind # "rules"
    /\ pc' \in {"create", "tag"} \cup Subnetwork
    /\ pc' \in Subnetwork => Kind \in {"control", "worker"}
    /\ pc' # "tag" => local'.rec = local.rec
Finished ==
    /\ \E rq \in BOOLEAN : Advances(rq) /\ (~rq => Settled(local'.rec, cloud, Plan[at]))
    /\ UNCHANGED <<copies, cloud, home, on>>

\* What an item step writes to the object.
Writes ==
    /\ local' \in ObjectType /\ local'.ready = local.ready /\ local'.host = local.host
    /\ \A i \in Items : i # Plan[at] => local'.rec[i] = local.rec[i]
    /\ \A k \in Kinds : k # Kind => local'.id[k] = local.id[k]

\* An object that is like the local one, or that has the current item recorded.
LEMMA WritesOf ==
    ASSUME spec \in Specs, local \in ObjectType, at \in 1..Len(Plan), local' \in ObjectType, NEW o \in ObjectType, Alike(local', o),
           \/ Alike(o, local)
           \/ \E st \in States : /\ o.id = local.id /\ o.rec = [local.rec EXCEPT ![Plan[at]] = st]
                                 /\ o.ready = local.ready /\ o.host = local.host
           \/ \E st \in States : \E n : /\ o.id = [local.id EXCEPT ![Kind] = n] /\ o.rec = [local.rec EXCEPT ![Plan[at]] = st]
                                    /\ o.ready = local.ready /\ o.host = local.host
    PROVE  Writes
<1>1. DOMAIN local.rec = Items /\ DOMAIN local.id = Kinds
  BY DEF ObjectType
<1>2. CASE Alike(o, local)
  BY <1>2 DEF Writes, Alike
<1>3. CASE \E st \in States : /\ o.id = local.id /\ o.rec = [local.rec EXCEPT ![Plan[at]] = st]
                              /\ o.ready = local.ready /\ o.host = local.host
  BY <1>1, <1>3 DEF Writes, Alike
<1>4. CASE \E st \in States : \E n : /\ o.id = [local.id EXCEPT ![Kind] = n] /\ o.rec = [local.rec EXCEPT ![Plan[at]] = st]
                                 /\ o.ready = local.ready /\ o.host = local.host
  BY <1>1, <1>4 DEF Writes, Alike
<1>. QED BY <1>2, <1>3, <1>4

\* The two ways out of an item.
LEMMA FailsOutcome ==
    ASSUME TypeInv, Busy, NEW o \in {local, Grouped(local)}, Fails(o)
    PROVE  Writes /\ Ended /\ Alike(local', local)
<1>1. spec \in Specs /\ at \in 1..Len(Plan) /\ local \in ObjectType
  BY DEF TypeInv, TypeOK, ApiTypeOK, ControllerTypeOK, PlaceInv
<1>2. o \in ObjectType /\ Alike(o, local)
  BY <1>1, ObjectUpdates DEF Alike
<1>3. local' \in ObjectType /\ Alike(local', o) /\ Ended
  BY <1>1, <1>2, FailsFacts DEF Ended
<1>. QED BY <1>1, <1>2, <1>3, WritesOf DEF Alike

LEMMA CreationFailsOutcome ==
    ASSUME TypeInv, Busy, CreationFails
    PROVE  Writes /\ Ended /\ Alike(local', local)
BY FailsOutcome DEF CreationFails

\* What was found is recorded.
LEMMA FoundOutcome ==
    ASSUME TypeInv, Busy, NEW st \in States, NEW rq \in BOOLEAN, Done(Recorded(local, st), rq),
           ~rq => st = "available" /\ (IsThing(Plan[at]) => cloud[Name] = "available"),
           UNCHANGED <<copies, cloud, home, on>>
    PROVE  Writes /\ Finished /\ local'.id = local.id
<1>1. spec \in Specs /\ at \in 1..Len(Plan) /\ local \in ObjectType /\ Plan[at] \in Items /\ wait \in BOOLEAN
  BY ItemFacts DEF TypeInv, TypeOK, ApiTypeOK, ControllerTypeOK, PlaceInv
<1>2. PICK o : o = Recorded(local, st)
  OBVIOUS
<1>3. /\ o \in ObjectType /\ o.id = local.id /\ o.ready = local.ready /\ o.host = local.host
      /\ o.rec = [local.rec EXCEPT ![Plan[at]] = st]
  <2>1. "vpc" \in Kinds /\ 0 \in 0..MaxCopies
    BY BoundAssumption DEF Kinds
  <2>. QED BY <1>1, <1>2, <2>1, Records
<1>4. local' \in ObjectType /\ Alike(local', o) /\ Advances(rq)
  BY <1>1, <1>2, <1>3, DoneFacts
<1>5. Writes
  BY <1>1, <1>3, <1>4, WritesOf
<1>6. local'.rec[Plan[at]] = st
  BY <1>1, <1>3, <1>4 DEF Alike, ObjectType
<1>7. ~rq => Settled(local'.rec, cloud, Plan[at])
  BY <1>6 DEF Settled, Name
<1>. QED BY <1>3, <1>4, <1>5, <1>7 DEF Finished, Alike

\* The copy of the ID is recorded.
LEMMA FetchedOutcome ==
    ASSUME TypeInv, Busy, NEW k \in Kinds, Kind = k, NEW n \in 1..Len(copies[k]), Fetched(k, n),
           UNCHANGED <<copies, cloud, home, on>>
    PROVE  /\ Writes /\ Finished /\ local'.id = [local.id EXCEPT ![k] = n]
           /\ \E rq \in BOOLEAN : Advances(rq)
<1>1. spec \in Specs /\ at \in 1..Len(Plan) /\ local \in ObjectType /\ Plan[at] \in Items /\ wait \in BOOLEAN
  BY ItemFacts DEF TypeInv, TypeOK, ApiTypeOK, ControllerTypeOK, PlaceInv
<1>2. PICK st : st = copies[k][n]
  OBVIOUS
<1>3. st \in {"pending", "available"} /\ n \in 0..MaxCopies
  <2>1. copies[k] \in Seq({"pending", "available"}) /\ Len(copies[k]) <= MaxCopies
    BY DEF TypeInv, TypeOK, CloudTypeOK
  <2>. QED BY <1>2, <2>1, BoundAssumption
<1>4. PICK o : o = Identified(local, k, n, st)
  OBVIOUS
<1>5. /\ o \in ObjectType /\ o.id = [local.id EXCEPT ![k] = n] /\ o.ready = local.ready /\ o.host = local.host
      /\ o.rec = [local.rec EXCEPT ![Plan[at]] = st]
  <2>1. st \in States
    BY <1>3 DEF States
  <2>. QED BY <1>1, <1>3, <1>4, <2>1, Records
<1>6. PICK rq \in BOOLEAN : rq = (st # "available")
  OBVIOUS
<1>7. Done(o, rq)
  BY <1>2, <1>4, <1>6 DEF Fetched
<1>8. local' \in ObjectType /\ Alike(local', o) /\ Advances(rq)
  BY <1>1, <1>5, <1>7, DoneFacts
<1>9. Writes
  BY <1>1, <1>3, <1>5, <1>8, WritesOf DEF States
<1>10. local'.rec[Plan[at]] = st
  BY <1>1, <1>5, <1>8 DEF Alike, ObjectType
<1>11. ~IsThing(Plan[at])
  BY DEF Kind, Kinds, IsThing
<1>12. ~rq => Settled(local'.rec, cloud, Plan[at])
  BY <1>6, <1>10, <1>11 DEF Settled
<1>. QED BY <1>5, <1>8, <1>9, <1>12 DEF Finished, Alike

\* Within an item.
LEMMA MovedOutcome ==
    ASSUME TypeInv, Busy, local' \in {local, Grouped(local)}
    PROVE  Writes /\ Alike(local', local)
<1>1. spec \in Specs /\ at \in 1..Len(Plan) /\ local \in ObjectType
  BY DEF TypeInv, TypeOK, ApiTypeOK, ControllerTypeOK, PlaceInv
<1>2. local' \in ObjectType /\ Alike(local', local)
  BY <1>1, ObjectUpdates DEF Alike
<1>. QED BY <1>1, <1>2, WritesOf DEF Alike

\* A thing is created, recorded unless the answer is lost.
LEMMA CreatedOutcome ==
    ASSUME TypeInv, Busy, NEW st \in States, CreatedItem(st), Kind # "rules"
    PROVE  /\ Writes /\ (Ended \/ Moved) /\ local'.id = local.id
           /\ pc' = "tag" => local'.rec[Plan[at]] = st
           /\ pc' # "tag" => pc' = "patch" /\ local'.rec = local.rec
<1>1. spec \in Specs /\ at \in 1..Len(Plan) /\ local \in ObjectType /\ Plan[at] \in Items
  BY ItemFacts DEF TypeInv, TypeOK, ApiTypeOK, ControllerTypeOK, PlaceInv
<1>2. CASE Fails(Grouped(local))
  BY <1>2, FailsOutcome DEF Ended, Alike
<1>3. CASE local' = Recorded(Grouped(local), st) /\ pc' = "tag" /\ UNCHANGED <<at, wait>>
  <2>1. PICK g \in ObjectType : g = Grouped(local) /\ Alike(g, local)
    BY <1>1, ObjectUpdates
  <2>2. /\ local' \in ObjectType /\ local'.id = g.id /\ local'.ready = g.ready /\ local'.host = g.host
        /\ local'.rec = [g.rec EXCEPT ![Plan[at]] = st]
    <3>1. "vpc" \in Kinds /\ 0 \in 0..MaxCopies
      BY BoundAssumption DEF Kinds
    <3>2. local' = Recorded(g, st)
      BY <1>3, <2>1
    <3>. QED BY <1>1, <2>1, <3>1, <3>2, Records
  <2>3. local'.rec = [local.rec EXCEPT ![Plan[at]] = st] /\ local'.id = local.id
        /\ local'.ready = local.ready /\ local'.host = local.host
    BY <2>1, <2>2 DEF Alike
  <2>4. Writes
    BY <1>1, <2>2, <2>3, WritesOf DEF Alike
  <2>5. local'.rec[Plan[at]] = st
    BY <1>1, <2>3 DEF ObjectType
  <2>. QED BY <1>3, <2>3, <2>4, <2>5 DEF Moved, Subnetwork
<1>. QED BY <1>2, <1>3 DEF CreatedItem

\* A copy is created; its ID is recorded unless the answer is lost.
LEMMA NewCopyOutcome ==
    ASSUME TypeInv, Busy, NEW k \in Kinds, Kind = k, NewCopy(k)
    PROVE  /\ Writes /\ (Ended \/ Moved)
           /\ \/ local'.id = local.id /\ pc' = "patch"
              \/ local'.id = [local.id EXCEPT ![k] = Len(copies[k]) + 1] /\ pc' = "tag"
           /\ copies' \in [Kinds -> Seq({"pending", "available"})]
           /\ Len(copies'[k]) = Len(copies[k]) + 1 /\ Len(copies'[k]) <= MaxCopies
           /\ \A j \in Kinds : j # k => copies'[j] = copies[j]
<1>1. spec \in Specs /\ at \in 1..Len(Plan) /\ local \in ObjectType /\ Plan[at] \in Items
  BY ItemFacts DEF TypeInv, TypeOK, ApiTypeOK, ControllerTypeOK, PlaceInv
<1>2. /\ copies \in [Kinds -> Seq({"pending", "available"})] /\ Len(copies[k]) \in Nat
      /\ Len(copies[k]) < MaxCopies
  BY DEF TypeInv, TypeOK, CloudTypeOK, NewCopy
<1>3. /\ copies' \in [Kinds -> Seq({"pending", "available"})]
      /\ Len(copies'[k]) = Len(copies[k]) + 1 /\ Len(copies'[k]) <= MaxCopies
      /\ \A j \in Kinds : j # k => copies'[j] = copies[j]
  <2>1. copies' = [copies EXCEPT ![k] = Append(copies[k], "pending")]
    BY DEF NewCopy
  <2>2. /\ Append(copies[k], "pending") \in Seq({"pending", "available"})
        /\ Len(Append(copies[k], "pending")) = Len(copies[k]) + 1
    BY <1>2
  <2>. QED BY <1>2, <2>1, <2>2, BoundAssumption
<1>4. Kind # "rules"
  BY DEF Kinds
<1>5. CASE Fails(Grouped(local))
  BY <1>3, <1>5, FailsOutcome DEF Ended, Alike
<1>6. CASE local' = Identified(Grouped(local), k, Len(copies[k]) + 1, "pending") /\ pc' = "tag" /\ UNCHANGED <<at, wait>>
  <2>1. PICK g \in ObjectType : g = Grouped(local) /\ Alike(g, local)
    BY <1>1, ObjectUpdates
  <2>2. PICK n \in 0..MaxCopies : n = Len(copies[k]) + 1
    BY <1>2, BoundAssumption
  <2>3. "pending" \in States
    BY DEF States
  <2>4. local' = Identified(g, k, n, "pending")
    BY <1>6, <2>1, <2>2
  <2>5. /\ local' \in ObjectType /\ local'.id = [g.id EXCEPT ![k] = n] /\ local'.ready = g.ready
        /\ local'.host = g.host /\ local'.rec = [g.rec EXCEPT ![Plan[at]] = "pending"]
    BY <1>1, <2>1, <2>3, <2>4, Records
  <2>6. local'.rec = [local.rec EXCEPT ![Plan[at]] = "pending"] /\ local'.id = [local.id EXCEPT ![Kind] = n]
        /\ local'.ready = local.ready /\ local'.host = local.host
    BY <2>1, <2>5 DEF Alike
  <2>7. Writes
    BY <1>1, <2>3, <2>5, <2>6, WritesOf DEF Alike
  <2>. QED BY <1>3, <1>4, <1>6, <2>2, <2>6, <2>7 DEF Moved, Subnetwork
<1>. QED BY <1>5, <1>6 DEF NewCopy

\* A number that GetVPCID or GetImageID returns is that of a copy.
LEMMA CopyNumbers ==
    ASSUME TypeInv
    PROVE  /\ GetVPCID \in 0..Len(copies["vpc"]) /\ Len(copies["vpc"]) \in Nat
           /\ GetImageID \in 0..Len(copies["image"]) /\ Len(copies["image"]) \in Nat
<1>1. /\ copies["vpc"] \in Seq({"pending", "available"}) /\ copies["image"] \in Seq({"pending", "available"})
      /\ local.id["vpc"] \in 0..MaxCopies /\ local.id["image"] \in 0..MaxCopies
      /\ local.id["vpc"] <= Len(copies["vpc"]) /\ local.id["image"] <= Len(copies["image"])
      /\ spec.vpc = "given" => copies["vpc"] # <<>>
      /\ spec.image = "given" => copies["image"] # <<>>
  BY DEF TypeInv, PlaceInv, Ref, TypeOK, CloudTypeOK, ControllerTypeOK, ObjectType, Kinds
<1>2. /\ Len(copies["vpc"]) \in Nat /\ (copies["vpc"] # <<>> => Len(copies["vpc"]) >= 1)
      /\ Len(copies["image"]) \in Nat /\ (copies["image"] # <<>> => Len(copies["image"]) >= 1)
  BY <1>1
<1>. QED BY <1>1, <1>2, BoundAssumption DEF GetVPCID, GetImageID

\* A VPC found by its name and not fetched.
LEMMA NamedOutcome ==
    ASSUME TypeInv, Busy, Kind = "vpc", NEW n \in 0..MaxCopies, Fails(Identified(local, "vpc", n, "available"))
    PROVE  Writes /\ Ended /\ local'.id = [local.id EXCEPT !["vpc"] = n]
<1>1. spec \in Specs /\ at \in 1..Len(Plan) /\ local \in ObjectType /\ Plan[at] \in Items
  BY ItemFacts DEF TypeInv, TypeOK, ApiTypeOK, ControllerTypeOK, PlaceInv
<1>2. PICK o : o = Identified(local, "vpc", n, "available")
  OBVIOUS
<1>3. "available" \in States /\ "vpc" \in Kinds
  BY DEF States, Kinds
<1>4. /\ o \in ObjectType /\ o.id = [local.id EXCEPT !["vpc"] = n] /\ o.ready = local.ready /\ o.host = local.host
      /\ o.rec = [local.rec EXCEPT ![Plan[at]] = "available"]
  BY <1>1, <1>2, <1>3, Records
<1>5. local' \in ObjectType /\ Alike(local', o) /\ Ended
  BY <1>1, <1>2, <1>4, FailsFacts DEF Ended
<1>. QED BY <1>1, <1>3, <1>4, <1>5, WritesOf DEF Alike

\* The item ends with nothing written.
LEMMA DoneOutcome ==
    ASSUME TypeInv, Busy, NEW rq \in BOOLEAN, Done(local, rq), ~rq => Settled(local.rec, cloud, Plan[at]),
           UNCHANGED <<copies, cloud, home, on>>
    PROVE  Writes /\ Finished /\ local'.id = local.id /\ Advances(rq)
<1>1. spec \in Specs /\ at \in 1..Len(Plan) /\ local \in ObjectType /\ wait \in BOOLEAN
  BY DEF TypeInv, TypeOK, ApiTypeOK, ControllerTypeOK, PlaceInv
<1>2. local' \in ObjectType /\ Alike(local', local) /\ Advances(rq)
  BY <1>1, DoneFacts
<1>3. Alike(local, local)
  BY DEF Alike
<1>4. Writes
  BY <1>1, <1>2, <1>3, WritesOf
<1>. QED BY <1>2, <1>4 DEF Finished, Alike

\* Every step through the plan, in terms of these.
LEMMA Outcome ==
    ASSUME TypeInv, TagInv, ItemSteps
    PROVE  /\ Writes /\ (Ended \/ Moved \/ Finished) /\ UNCHANGED apiVars /\ Busy
<1>0. spec \in Specs /\ local \in ObjectType /\ wait \in BOOLEAN /\ cloud \in [Things -> States] /\ MaxCopies \in Nat
  BY BoundAssumption DEF TypeInv, TypeOK, ApiTypeOK, ControllerTypeOK, CloudTypeOK
<1>1. Busy /\ UNCHANGED apiVars
  BY DEF ItemSteps, Busy, FindVPC, CreateVPC, FindCustomImage, CreateCustomImage, FindSubnet, FindPublicGateway,
     CreatePublicGateway, TagPublicGateway, CreateSubnet, FindSecurityGroup, CreateSecurityGroup,
     ReconcileSecurityGroupRules, FindLoadBalancer, CreateLoadBalancer, TagResource
<1>. SUFFICES Writes /\ (Ended \/ Moved \/ Finished)
  BY <1>1
<1>2. ASSUME Fails(local) PROVE Writes /\ Ended
  BY <1>1, <1>2, FailsOutcome
<1>3. ASSUME CreationFails PROVE Writes /\ Ended
  BY <1>1, <1>3, CreationFailsOutcome
<1>4. ASSUME Absent, Kind # "rules" PROVE Writes /\ Moved
  BY <1>1, <1>4, MovedOutcome DEF Absent, Moved, Subnetwork, Alike
<1>5. ASSUME Found, UNCHANGED <<copies, cloud, home, on>>, Name \in Things PROVE Writes /\ Finished
  <2>1. cloud[Name] \in States
    BY <1>0, <1>5
  <2>2. PICK rq \in BOOLEAN : rq = (cloud[Name] # "available")
    OBVIOUS
  <2>3. Done(Recorded(local, cloud[Name]), rq)
    BY <1>5, <2>2 DEF Found
  <2>. QED BY <1>1, <1>5, <2>1, <2>2, <2>3, FoundOutcome
<1>6. CASE FindVPC
  <2>1. Kind = "vpc" /\ UNCHANGED <<copies, cloud, home, on>>
    BY <1>6 DEF FindVPC, cloudVars
  <2>2. CASE Fails(Identified(local, "vpc", GetVPCID, "available"))
    <3>1. GetVPCID \in 0..MaxCopies
      <4>1. Len(copies["vpc"]) <= MaxCopies
        BY DEF TypeInv, TypeOK, CloudTypeOK, Kinds
      <4>. QED BY <1>0, <4>1, CopyNumbers
    <3>. QED BY <1>1, <2>1, <2>2, <3>1, NamedOutcome
  <2>3. CASE GetVPCID # 0 /\ Fetched("vpc", GetVPCID)
    <3>1. GetVPCID \in 1..Len(copies["vpc"]) /\ "vpc" \in Kinds
      BY <2>3, CopyNumbers DEF Kinds
    <3>. QED BY <1>1, <2>1, <2>3, <3>1, FetchedOutcome
  <2>. QED BY <1>2, <1>4, <1>6, <2>1, <2>2, <2>3 DEF FindVPC
<1>7. CASE FindCustomImage
  <2>1. Kind = "image" /\ UNCHANGED <<copies, cloud, home, on>>
    BY <1>7 DEF FindCustomImage, cloudVars
  <2>2. CASE spec.image = "none" /\ Done(local, FALSE)
    <3>1. Settled(local.rec, cloud, Plan[at])
      BY <2>1, <2>2 DEF Settled, Exempt, IsThing, Kind
    <3>. QED BY <1>1, <2>1, <2>2, <3>1, DoneOutcome
  <2>3. CASE GetImageID # 0 /\ Fetched("image", GetImageID)
    <3>1. GetImageID \in 1..Len(copies["image"]) /\ "image" \in Kinds
      BY <2>3, CopyNumbers DEF Kinds
    <3>. QED BY <1>1, <2>1, <2>3, <3>1, FetchedOutcome
  <2>. QED BY <1>2, <1>4, <1>7, <2>1, <2>2, <2>3 DEF FindCustomImage
<1>8. CASE CreateVPC \/ CreateCustomImage
  <2>1. ASSUME NEW k \in Kinds, Kind = k, NewCopy(k) PROVE Writes /\ (Ended \/ Moved)
    BY <1>1, <2>1, NewCopyOutcome
  <2>2. CASE Fails(Grouped(local))
    BY <1>1, <2>2, FailsOutcome
  <2>. QED BY <1>3, <1>8, <2>1, <2>2 DEF CreateVPC, CreateCustomImage, Kinds
<1>9. at \in 1..Len(Plan)
  BY <1>1 DEF TypeInv, PlaceInv
<1>10. CASE FindSubnet
  <2>1. Kind \in {"control", "worker"} /\ UNCHANGED <<copies, cloud, home, on>> /\ Name \in Things
    BY <1>0, <1>9, <1>10, ItemFacts DEF FindSubnet, cloudVars, Things
  <2>2. CASE pc' = "gateway" /\ UNCHANGED <<local, at, wait>>
    BY <1>1, <2>1, <2>2, MovedOutcome DEF Moved, Subnetwork, Alike
  <2>. QED BY <1>2, <1>5, <1>10, <2>1, <2>2 DEF FindSubnet
<1>11. CASE FindPublicGateway
  <2>1. Kind \in {"control", "worker"}
    BY <1>11 DEF FindPublicGateway, TypeInv, PlaceInv, Subnetwork
  <2>2. CASE local' = Grouped(local) /\ pc' \in {"createGateway", "create"} /\ UNCHANGED <<at, wait>>
    BY <1>1, <2>1, <2>2, MovedOutcome DEF Moved, Subnetwork, Alike
  <2>. QED BY <1>3, <1>11, <2>2 DEF FindPublicGateway
<1>12. CASE CreatePublicGateway \/ TagPublicGateway
  <2>1. Kind \in {"control", "worker"}
    BY <1>12 DEF CreatePublicGateway, TagPublicGateway, TypeInv, PlaceInv, Subnetwork
  <2>2. CASE pc' \in {"tagGateway", "create"} /\ UNCHANGED <<local, at, wait>>
    BY <1>1, <2>1, <2>2, MovedOutcome DEF Moved, Subnetwork, Alike
  <2>. QED BY <1>2, <1>12, <2>2 DEF CreatePublicGateway, TagPublicGateway
<1>13. CASE CreateSubnet \/ CreateSecurityGroup \/ CreateLoadBalancer
  <2>1. Kind # "rules" /\ "pending" \in States /\ "available" \in States
    BY <1>13 DEF CreateSubnet, CreateSecurityGroup, CreateLoadBalancer, States
  <2>2. ASSUME NEW st \in States, CreatedItem(st) PROVE Writes /\ (Ended \/ Moved)
    BY <1>1, <2>1, <2>2, CreatedOutcome
  <2>. QED BY <1>2, <1>3, <1>13, <2>1, <2>2 DEF CreateSubnet, CreateSecurityGroup, CreateLoadBalancer
<1>14. CASE FindSecurityGroup
  <2>1. Kind = "group" /\ UNCHANGED <<copies, cloud, home, on>> /\ Name \in Things
    BY <1>0, <1>9, <1>14, ItemFacts DEF FindSecurityGroup, cloudVars, Things
  <2>. QED BY <1>2, <1>4, <1>5, <1>14, <2>1 DEF FindSecurityGroup
<1>15. CASE ReconcileSecurityGroupRules
  <2>1. Settled(local.rec, cloud, Plan[at]) /\ UNCHANGED <<copies, cloud, home, on>>
    BY <1>15 DEF ReconcileSecurityGroupRules, Settled, Exempt, IsThing, Kind, cloudVars
  <2>. QED BY <1>1, <1>2, <1>15, <2>1, DoneOutcome DEF ReconcileSecurityGroupRules
<1>16. CASE FindLoadBalancer
  <2>1. Kind = "lb" /\ UNCHANGED <<copies, cloud, home, on>> /\ Name \in Things
    BY <1>0, <1>9, <1>16, ItemFacts DEF FindLoadBalancer, cloudVars, Things
  <2>2. CASE Done(Recorded(local, "pending"), TRUE)
    <3>1. "pending" \in States
      BY DEF States
    <3>. QED BY <1>1, <2>1, <2>2, <3>1, FoundOutcome
  <2>. QED BY <1>2, <1>4, <1>5, <1>16, <2>1, <2>2 DEF FindLoadBalancer
<1>17. CASE TagResource
  <2>1. CASE Done(local, Kind # "group") /\ UNCHANGED <<copies, cloud, home, on>>
    <3>1. PICK rq \in BOOLEAN : rq = (Kind # "group")
      OBVIOUS
    <3>2. ~rq => Settled(local.rec, cloud, Plan[at])
      BY <1>17, <3>1 DEF TagInv, TagResource
    <3>. QED BY <1>1, <2>1, <3>1, <3>2, DoneOutcome
  <2>. QED BY <1>2, <1>17, <2>1 DEF TagResource
<1>. QED BY <1>1, <1>6, <1>7, <1>8, <1>10, <1>11, <1>12, <1>13, <1>14, <1>15, <1>16, <1>17 DEF ItemSteps

\* What a step through the plan does to IBM Cloud.
CloudSafe ==
    /\ copies' \in [Kinds -> Seq({"pending", "available"})]
    /\ \A k \in Kinds : Len(copies'[k]) \in Nat /\ Len(copies[k]) <= Len(copies'[k]) /\ Len(copies'[k]) <= MaxCopies
    /\ cloud' \in [Things -> States] /\ home' \in [Things -> 0..MaxCopies]
    /\ on' \in [LBs -> SUBSET (Subnets \cup Groups)] /\ tagged' \subseteq Kinds \cup Things
    /\ \A k \in Kinds : local'.id[k] <= Len(copies'[k])
    /\ faults' \in 0..MaxFaults

LEMMA ItemsSafe ==
    ASSUME TypeInv, TagInv, ItemSteps
    PROVE  CloudSafe
<1>0. /\ spec \in Specs /\ local \in ObjectType /\ MaxCopies \in Nat /\ copies \in [Kinds -> Seq({"pending", "available"})]
      /\ cloud \in [Things -> States] /\ home \in [Things -> 0..MaxCopies] /\ faults \in 0..MaxFaults
      /\ on \in [LBs -> SUBSET (Subnets \cup Groups)] /\ tagged \subseteq Kinds \cup Things
      /\ \A k \in Kinds : local.id[k] <= Len(copies[k]) /\ Len(copies[k]) <= MaxCopies
      /\ "pending" \in States /\ "available" \in States
  BY BoundAssumption DEF TypeInv, TypeOK, ApiTypeOK, ControllerTypeOK, CloudTypeOK, States
<1>1. Busy /\ at \in 1..Len(Plan)
  BY Outcome DEF TypeInv, PlaceInv
<1>2. \A k \in Kinds : Len(copies[k]) \in Nat
  BY <1>0
<1>3. faults' \in 0..MaxFaults
  BY <1>0, FaultArithmetic
     DEF ItemSteps, FindVPC, CreateVPC, FindCustomImage, CreateCustomImage, FindSubnet, FindPublicGateway,
     CreatePublicGateway, TagPublicGateway, CreateSubnet, FindSecurityGroup, CreateSecurityGroup,
     ReconcileSecurityGroupRules, FindLoadBalancer, CreateLoadBalancer, TagResource, CreationFails, Found,
     NewCopy, CreatedItem
<1>4. local'.id \in [Kinds -> 0..MaxCopies] /\ local.id \in [Kinds -> 0..MaxCopies]
  BY <1>0, Outcome DEF Writes, ObjectType
<1>5. /\ Name \in Kinds \cup Things /\ (Kind \in {"control", "worker"} => Name \in Subnets /\ Zone[Name] \in Gateways)
      /\ (Kind = "lb" => Name \in LBs) /\ (Kind = "group" => Name \in Groups)
  BY <1>0, <1>1, ItemFacts
<1>6. GetVPCID \in 0..MaxCopies
  <2>1. Len(copies["vpc"]) \in Nat /\ Len(copies["vpc"]) <= MaxCopies
    BY <1>0, <1>2 DEF Kinds
  <2>. QED BY <1>0, <2>1, CopyNumbers
<1>7. ASSUME UNCHANGED copies, \A k \in Kinds : local'.id[k] = local.id[k] \/ local'.id[k] <= Len(copies[k])
      PROVE  /\ copies' \in [Kinds -> Seq({"pending", "available"})]
             /\ \A k \in Kinds : Len(copies'[k]) \in Nat /\ Len(copies[k]) <= Len(copies'[k]) /\ Len(copies'[k]) <= MaxCopies
             /\ \A k \in Kinds : local'.id[k] <= Len(copies'[k])
  BY <1>0, <1>2, <1>7
<1>8. CASE FindVPC \/ FindCustomImage
  <2>1. UNCHANGED <<copies, cloud, home, on, tagged>> /\ Kind \in Kinds
    BY <1>8 DEF FindVPC, FindCustomImage, cloudVars, Kinds
  <2>2. ASSUME NEW k \in Kinds PROVE local'.id[k] = local.id[k] \/ local'.id[k] <= Len(copies[k])
    <3>1. CASE Fails(local)
      BY <1>1, <3>1, FailsOutcome DEF Alike
    <3>2. CASE Absent
      BY <3>2 DEF Absent
    <3>3. CASE Done(local, FALSE) /\ spec.image = "none" /\ Kind = "image"
      <4>1. Settled(local.rec, cloud, Plan[at])
        BY <3>3 DEF Settled, Exempt, IsThing, Kind
      <4>. QED BY <1>1, <2>1, <3>3, <4>1, DoneOutcome
    <3>4. ASSUME NEW j \in Kinds, Kind = j, NEW n \in 1..Len(copies[j]), Fetched(j, n)
          PROVE  local'.id[k] = local.id[k] \/ local'.id[k] <= Len(copies[k])
      <4>1. local'.id = [local.id EXCEPT ![j] = n]
        BY <1>1, <2>1, <3>4, FetchedOutcome
      <4>2. n <= Len(copies[j])
        BY <1>2
      <4>. QED BY <1>4, <4>1, <4>2
    <3>5. CASE Kind = "vpc" /\ Fails(Identified(local, "vpc", GetVPCID, "available"))
      <4>1. local'.id = [local.id EXCEPT !["vpc"] = GetVPCID]
        BY <1>1, <1>6, <3>5, NamedOutcome
      <4>2. GetVPCID <= Len(copies["vpc"])
        BY CopyNumbers
      <4>. QED BY <1>4, <4>1, <4>2
    <3>6. CASE FindVPC
      <4>1. GetVPCID # 0 => GetVPCID \in 1..Len(copies["vpc"])
        BY CopyNumbers
      <4>. QED BY <3>1, <3>2, <3>4, <3>5, <3>6, <4>1 DEF FindVPC, Kinds
    <3>7. CASE FindCustomImage
      <4>1. GetImageID # 0 => GetImageID \in 1..Len(copies["image"])
        BY CopyNumbers
      <4>. QED BY <3>1, <3>2, <3>3, <3>4, <3>7, <4>1 DEF FindCustomImage, Kinds
    <3>. QED BY <1>8, <3>6, <3>7
  <2>. QED BY <1>0, <1>3, <1>7, <2>1, <2>2 DEF CloudSafe
<1>9. CASE (CreateVPC \/ CreateCustomImage) /\ ~UNCHANGED copies
  <2>1. UNCHANGED <<cloud, home, on, tagged>>
    BY <1>9 DEF CreateVPC, CreateCustomImage
  <2>2. PICK k \in Kinds : Kind = k /\ NewCopy(k)
    BY <1>9 DEF CreateVPC, CreateCustomImage, Kinds
  <2>3. /\ \/ local'.id = local.id
           \/ local'.id = [local.id EXCEPT ![k] = Len(copies[k]) + 1]
        /\ copies' \in [Kinds -> Seq({"pending", "available"})]
        /\ Len(copies'[k]) = Len(copies[k]) + 1 /\ Len(copies'[k]) <= MaxCopies
        /\ \A j \in Kinds : j # k => copies'[j] = copies[j]
    BY <1>1, <2>2, NewCopyOutcome
  <2>4. ASSUME NEW j \in Kinds PROVE /\ Len(copies'[j]) \in Nat /\ Len(copies[j]) <= Len(copies'[j])
                                     /\ Len(copies'[j]) <= MaxCopies /\ local'.id[j] <= Len(copies'[j])
    <3>1. local.id[j] \in Nat /\ local.id[j] <= Len(copies[j]) /\ Len(copies[j]) \in Nat /\ Len(copies[j]) <= MaxCopies
      BY <1>0, <1>2, <1>4
    <3>2. CASE j = k
      <4>1. local'.id[k] \in {local.id[k], Len(copies[k]) + 1}
        BY <1>4, <2>3
      <4>. QED BY <2>3, <3>1, <3>2, <4>1
    <3>3. CASE j # k
      <4>1. local'.id[j] = local.id[j] /\ copies'[j] = copies[j]
        BY <1>4, <2>3, <3>3
      <4>. QED BY <3>1, <4>1
    <3>. QED BY <3>2, <3>3
  <2>. QED BY <1>0, <1>3, <2>1, <2>3, <2>4 DEF CloudSafe
<1>10. CASE (CreateVPC \/ CreateCustomImage) /\ UNCHANGED copies
  <2>1. UNCHANGED <<cloud, home, on, tagged>>
    BY <1>10 DEF CreateVPC, CreateCustomImage
  <2>2. CreationFails \/ Fails(Grouped(local)) \/ (\E k \in Kinds : NewCopy(k) /\ Kind = k)
    BY <1>10 DEF CreateVPC, CreateCustomImage, Kinds
  <2>3. ~(\E k \in Kinds : NewCopy(k) /\ Kind = k)
    <3>1. ASSUME NEW k \in Kinds, Kind = k, NewCopy(k) PROVE FALSE
      <4>1. Len(copies'[k]) = Len(copies[k]) + 1
        BY <1>1, <3>1, NewCopyOutcome
      <4>. QED BY <1>2, <1>10, <4>1
    <3>. QED BY <3>1
  <2>4. local'.id = local.id
    BY <1>1, <2>2, <2>3, CreationFailsOutcome, FailsOutcome DEF Alike
  <2>. QED BY <1>0, <1>3, <1>7, <1>10, <2>1, <2>4 DEF CloudSafe
<1>11. ASSUME Kind \notin Kinds PROVE \A k \in Kinds : local'.id[k] = local.id[k]
  BY <1>11, Outcome DEF Writes
<1>12. CASE FindSubnet \/ FindPublicGateway \/ FindSecurityGroup \/ ReconcileSecurityGroupRules \/ FindLoadBalancer
  <2>1. UNCHANGED <<copies, cloud, home, on, tagged>> /\ Kind \notin Kinds
    BY <1>12 DEF FindSubnet, FindPublicGateway, FindSecurityGroup, ReconcileSecurityGroupRules, FindLoadBalancer,
       cloudVars, Kinds, TypeInv, PlaceInv, Subnetwork
  <2>. QED BY <1>0, <1>3, <1>7, <1>11, <2>1 DEF CloudSafe
<1>13. CASE CreatePublicGateway \/ TagPublicGateway
  <2>1. UNCHANGED <<copies, on>> /\ Kind \in {"control", "worker"} /\ Kind \notin Kinds
    BY <1>13 DEF CreatePublicGateway, TagPublicGateway, Kinds, TypeInv, PlaceInv, Subnetwork
  <2>2. /\ cloud' \in [Things -> States] /\ home' \in [Things -> 0..MaxCopies]
        /\ tagged' \subseteq Kinds \cup Things
    BY <1>0, <1>5, <1>6, <1>13, <2>1 DEF CreatePublicGateway, TagPublicGateway, Created, Things
  <2>. QED BY <1>0, <1>3, <1>7, <1>11, <2>1, <2>2 DEF CloudSafe
<1>14. CASE CreateSubnet \/ CreateSecurityGroup \/ CreateLoadBalancer
  <2>1. UNCHANGED <<copies, tagged>> /\ Kind \in {"control", "worker", "group", "lb"} /\ Kind \notin Kinds
    BY <1>14 DEF CreateSubnet, CreateSecurityGroup, CreateLoadBalancer, Kinds
  <2>2. cloud' \in [Things -> States] /\ home' \in [Things -> 0..MaxCopies]
    <3>1. Name \in Things
      BY <1>5, <2>1 DEF Things
    <3>2. ASSUME NEW st \in States, Created(Name, st)
          PROVE  cloud' \in [Things -> States] /\ home' \in [Things -> 0..MaxCopies]
      BY <1>0, <1>6, <3>1, <3>2 DEF Created
    <3>3. UNCHANGED <<cloud, home>> \/ Created(Name, "pending") \/ Created(Name, "available")
      BY <1>14 DEF CreateSubnet, CreateSecurityGroup, CreateLoadBalancer, CreatedItem
    <3>. QED BY <1>0, <3>2, <3>3
  <2>3. GetLoadBalancerSubnetIDs \subseteq Subnets /\ GetLoadBalancerSecurityGroupIDs \subseteq Groups
    <3>1. spec.lbSubnets \subseteq Subnets /\ spec.lbGroups \subseteq Groups
      BY <1>0, SpecAssumption DEF SpecType
    <3>. QED BY <3>1 DEF GetLoadBalancerSubnetIDs, GetLoadBalancerSecurityGroupIDs
  <2>4. on' \in [LBs -> SUBSET (Subnets \cup Groups)]
    BY <1>0, <1>5, <1>14, <2>3 DEF CreateSubnet, CreateSecurityGroup, CreateLoadBalancer
  <2>. QED BY <1>0, <1>3, <1>7, <1>11, <2>1, <2>2, <2>4 DEF CloudSafe
<1>15. CASE TagResource
  <2>1. UNCHANGED <<copies, cloud, home, on>> /\ tagged' \subseteq Kinds \cup Things
    BY <1>0, <1>5, <1>15 DEF TagResource
  <2>2. local'.id = local.id
    <3>1. CASE Fails(local)
      BY <1>1, <3>1, FailsOutcome DEF Alike
    <3>2. CASE Done(local, Kind # "group")
      <4>1. PICK rq \in BOOLEAN : rq = (Kind # "group")
        OBVIOUS
      <4>2. ~rq => Settled(local.rec, cloud, Plan[at])
        BY <1>15, <4>1 DEF TagInv, TagResource
      <4>. QED BY <1>1, <2>1, <3>2, <4>1, <4>2, DoneOutcome
    <3>. QED BY <1>15, <3>1, <3>2 DEF TagResource
  <2>. QED BY <1>0, <1>3, <1>7, <2>1, <2>2 DEF CloudSafe
<1>. QED BY <1>8, <1>9, <1>10, <1>12, <1>13, <1>14, <1>15 DEF ItemSteps

\* The plan is that of the spec, which does not change.
LEMMA SamePlan ==
    ASSUME spec' = spec
    PROVE  /\ Plan' = Plan /\ Ref' = Ref
           /\ at' = at => Kind' = Kind /\ Name' = Name
BY DEF Plan, Ref, Kind, Name

\* Steps through the plan keep the types.
LEMMA ItemsType ==
    ASSUME TypeInv, TagInv, ItemSteps
    PROVE  TypeInv'
<1>1. Writes /\ (Ended \/ Moved \/ Finished) /\ UNCHANGED apiVars /\ Busy
  BY Outcome
<1>2. CloudSafe
  BY ItemsSafe
<1>3. UNCHANGED <<spec, stored, phase, held>> /\ Plan' = Plan /\ Ref' = Ref /\ (at' = at => Kind' = Kind)
  BY <1>1, SamePlan DEF apiVars
<1>4. /\ spec \in Specs /\ stored \in ObjectType /\ phase \in {"live", "deleting", "gone"} /\ held \in BOOLEAN
      /\ wait \in BOOLEAN /\ at \in 1..Len(Plan) /\ Len(Plan) \in Nat
      /\ copies \in [Kinds -> Seq({"pending", "available"})]
      /\ \A k \in Kinds : stored.id[k] <= Len(copies[k])
      /\ \A k \in Kinds : Ref[k] = "given" => copies[k] # <<>>
  BY <1>1, PlanFacts DEF TypeInv, TypeOK, ApiTypeOK, ControllerTypeOK, CloudTypeOK, PlaceInv
<1>5. /\ pc' \in {"find", "create", "tag", "host", "patch"} \cup Subnetwork
      /\ at' \in 1..Len(Plan) /\ wait' \in BOOLEAN
      /\ pc' = "host" => at' = Len(Plan)
      /\ pc' \in Subnetwork => Kind' \in {"control", "worker"}
      /\ pc' \in {"create", "tag"} => Kind' # "rules"
  <2>1. CASE Ended
    BY <1>4, <2>1 DEF Ended, Subnetwork
  <2>2. CASE Moved
    BY <1>3, <1>4, <2>2 DEF Moved, Subnetwork
  <2>3. CASE Finished
    <3>1. PICK rq \in BOOLEAN : Advances(rq)
      BY <2>3 DEF Finished
    <3>2. at' \in {at, at + 1} /\ (at' # at => at < Len(Plan)) /\ pc' \in {"find", "patch", "host"}
          /\ (pc' = "host" => at = Len(Plan) /\ at' = at)
      BY <3>1 DEF Advances
    <3>3. wait' \in BOOLEAN
      BY <3>1 DEF Advances
    <3>4. at' \in 1..Len(Plan)
      BY <1>4, <3>2
    <3>. QED BY <3>2, <3>3, <3>4 DEF Subnetwork
  <2>. QED BY <1>1, <2>1, <2>2, <2>3
<1>6. PlaceInv'
  <2>1. ASSUME NEW k \in Kinds, Ref[k] = "given" PROVE copies'[k] # <<>>
    <3>1. /\ copies[k] \in Seq({"pending", "available"}) /\ copies[k] # <<>> /\ Len(copies[k]) <= Len(copies'[k])
      BY <1>2, <1>4, <2>1 DEF CloudSafe
    <3>2. Len(copies[k]) > 0
      BY <3>1
    <3>. QED BY <3>1, <3>2
  <2>. QED BY <1>3, <1>4, <1>5, <2>1 DEF PlaceInv
<1>7. CloudTypeOK'
  BY <1>2 DEF CloudSafe, CloudTypeOK
<1>8. ApiTypeOK' /\ ControllerTypeOK'
  BY <1>1, <1>3, <1>4, <1>5 DEF ApiTypeOK, ControllerTypeOK, Writes, Subnetwork
<1>9. \A k \in Kinds : stored'.id[k] <= Len(copies'[k]) /\ local'.id[k] <= Len(copies'[k])
  <2>1. ASSUME NEW k \in Kinds PROVE stored.id[k] <= Len(copies'[k])
    <3>1. stored.id[k] \in Nat /\ Len(copies[k]) \in Nat
      BY <1>4, BoundAssumption DEF ObjectType
    <3>. QED BY <1>2, <1>4, <3>1 DEF CloudSafe
  <2>. QED BY <1>2, <1>3, <2>1 DEF CloudSafe
<1>. QED BY <1>2, <1>6, <1>7, <1>8, <1>9 DEF TypeInv, TypeOK, CloudSafe

\* What IBM Cloud and the user do.
LEMMA QuietSteps ==
    ASSUME TypeInv, CloudProgress \/ Release \/ Pause \/ DeleteObject \/ ReconcileReturns \/ EnsureFinalizer \/ UNCHANGED vars
    PROVE  /\ UNCHANGED <<spec, local, at, pc, wait, home, on, tagged, faults>>
           /\ stored' \in ObjectType /\ Alike(stored', stored)
           /\ copies' \in [Kinds -> Seq({"pending", "available"})] /\ \A k \in Kinds : Len(copies'[k]) = Len(copies[k])
           /\ cloud' \in [Things -> States]
           /\ \A t \in Things : cloud'[t] = cloud[t] \/ (cloud[t] = "pending" /\ cloud'[t] = "available")
           /\ phase' \in {"live", "deleting", "gone"} /\ held' \in BOOLEAN
<1>0. /\ stored \in ObjectType /\ copies \in [Kinds -> Seq({"pending", "available"})] /\ cloud \in [Things -> States]
      /\ phase \in {"live", "deleting", "gone"} /\ held \in BOOLEAN /\ Alike(stored, stored)
  BY DEF TypeInv, TypeOK, ApiTypeOK, CloudTypeOK, Alike
<1>1. CASE \E k \in Kinds : \E n \in DOMAIN copies[k] : CopyReady(k, n)
  <2>1. PICK k \in Kinds : \E n \in DOMAIN copies[k] : CopyReady(k, n)
    BY <1>1
  <2>2. PICK n \in DOMAIN copies[k] : CopyReady(k, n)
    BY <2>1
  <2>3. copies' = [copies EXCEPT ![k] = [copies[k] EXCEPT ![n] = "available"]]
    BY <2>2 DEF CopyReady
  <2>4. /\ [copies[k] EXCEPT ![n] = "available"] \in Seq({"pending", "available"})
        /\ Len([copies[k] EXCEPT ![n] = "available"]) = Len(copies[k])
    BY <1>0
  <2>5. copies' \in [Kinds -> Seq({"pending", "available"})] /\ \A j \in Kinds : Len(copies'[j]) = Len(copies[j])
    BY <1>0, <2>3, <2>4
  <2>. QED BY <1>0, <2>2, <2>5 DEF CopyReady, apiVars, ctlVars
<1>2. CASE \E t \in Things : ThingReady(t)
  <2>1. PICK t \in Things : ThingReady(t)
    BY <1>2
  <2>2. /\ cloud' \in [Things -> States]
        /\ \A u \in Things : cloud'[u] = cloud[u] \/ (cloud[u] = "pending" /\ cloud'[u] = "available")
    BY <1>0, <2>1 DEF ThingReady, States
  <2>. QED BY <1>0, <2>1, <2>2 DEF ThingReady, apiVars, ctlVars
<1>3. CASE EnsureFinalizer
  <2>1. stored' \in ObjectType /\ Alike(stored', stored)
    BY <1>0, <1>3, ObjectUpdates DEF EnsureFinalizer
  <2>. QED BY <1>0, <1>3, <2>1 DEF EnsureFinalizer, cloudVars, ctlVars
<1>4. CASE Release \/ Pause \/ DeleteObject \/ ReconcileReturns \/ UNCHANGED vars
  BY <1>0, <1>4 DEF Release, Pause, DeleteObject, ReconcileReturns, vars, cloudVars, ctlVars, apiVars
<1>. QED BY <1>1, <1>2, <1>3, <1>4 DEF CloudProgress

\* The steps that begin, end and mark a reconcile.
LEMMA FrameSteps ==
    ASSUME TypeInv, StartReconcile \/ ReconcileDeleteV2 \/ MarkReady \/ Patch \/ Crash
    PROVE  /\ UNCHANGED <<spec, copies, cloud, home, on, tagged, held>>
           /\ local' \in ObjectType /\ stored' \in ObjectType /\ phase' \in {"live", "deleting", "gone"}
           /\ stored'.id \in {stored.id, local.id} /\ local'.id \in {stored.id, local.id, NewObject.id}
           /\ stored'.rec \in {stored.rec, local.rec} /\ local'.rec \in {stored.rec, local.rec, NewObject.rec}
           /\ faults' \in 0..MaxFaults
<1>0. /\ stored \in ObjectType /\ local \in ObjectType /\ phase \in {"live", "deleting", "gone"}
      /\ faults \in 0..MaxFaults /\ NewObject \in ObjectType
  BY NewObjectType DEF TypeInv, TypeOK, ApiTypeOK, ControllerTypeOK
<1>1. CASE StartReconcile
  BY <1>0, <1>1 DEF StartReconcile, cloudVars, apiVars
<1>2. CASE ReconcileDeleteV2
  <2>1. local' \in ObjectType /\ Alike(local', stored)
    BY <1>0, <1>2, ObjectUpdates DEF ReconcileDeleteV2
  <2>. QED BY <1>0, <1>2, <2>1 DEF ReconcileDeleteV2, cloudVars, apiVars, Alike
<1>3. CASE MarkReady
  <2>1. local' \in ObjectType /\ local'.id = local.id /\ local'.rec = local.rec
    <3>1. CASE UNCHANGED local
      BY <1>0, <3>1
    <3>2. ASSUME NEW i \in DOMAIN LoadBalancers, local' = [local EXCEPT !.host = LoadBalancers[i], !.ready = TRUE]
          PROVE  local' \in ObjectType /\ local'.id = local.id /\ local'.rec = local.rec
      <4>1. LoadBalancers[i] \in LBs
        BY DEF LBs, Range
      <4>. QED BY <1>0, <3>2, <4>1 DEF ObjectType
    <3>. QED BY <1>3, <3>1, <3>2 DEF MarkReady
  <2>2. faults' \in 0..MaxFaults
    BY <1>0, <1>3, FaultArithmetic DEF MarkReady
  <2>. QED BY <1>0, <1>3, <2>1, <2>2 DEF MarkReady, cloudVars, apiVars
<1>4. CASE Patch
  <2>1. PICK parts \in SUBSET PatchParts : stored' = Patched(parts) /\ (NoFault \/ Fault("patch"))
    BY <1>4 DEF Patch
  <2>2. stored' \in ObjectType /\ stored'.id \in {stored.id, local.id} /\ stored'.rec \in {stored.rec, local.rec}
    <3>1. ASSUME NEW f \in {stored, local}, NEW g \in {stored, local}, NEW h \in {stored, local}
          PROVE LET u == [finalizer |-> f.finalizer, host |-> f.host, rg |-> g.rg, id |-> g.id, rec |-> g.rec,
                          ready |-> g.ready, cond |-> h.cond]
                IN u \in ObjectType /\ u.id \in {stored.id, local.id} /\ u.rec \in {stored.rec, local.rec}
      BY <1>0 DEF ObjectType
    <3>. QED BY <2>1, <3>1 DEF Patched
  <2>3. faults' \in 0..MaxFaults
    BY <1>0, <2>1, FaultArithmetic
  <2>. QED BY <1>0, <1>4, <2>2, <2>3 DEF Patch, Forget, cloudVars
<1>5. CASE Crash
  <2>1. faults' \in 0..MaxFaults
    BY <1>0, <1>5, FaultArithmetic DEF Crash
  <2>. QED BY <1>0, <1>5, <2>1 DEF Crash, Forget, cloudVars, apiVars
<1>. QED BY <1>1, <1>2, <1>3, <1>4, <1>5

QuietStep == CloudProgress \/ Release \/ Pause \/ DeleteObject \/ ReconcileReturns \/ EnsureFinalizer \/ UNCHANGED vars
FrameStep == StartReconcile \/ ReconcileDeleteV2 \/ MarkReady \/ Patch \/ Crash

LEMMA NextSteps == [Next]_vars => QuietStep \/ FrameStep \/ ItemSteps
BY DEF Next, Steps, QuietStep, FrameStep, ItemSteps

\* An existing copy stays.
LEMMA CopiesStay ==
    ASSUME TypeInv, spec' = spec, \A k \in Kinds : Len(copies'[k]) = Len(copies[k])
    PROVE  /\ \A k \in Kinds : Ref'[k] = "given" => copies'[k] # <<>>
           /\ \A k \in Kinds : Len(copies'[k]) <= MaxCopies
<1>1. ASSUME NEW k \in Kinds, Ref[k] = "given" PROVE copies'[k] # <<>>
  <2>1. copies[k] \in Seq({"pending", "available"}) /\ copies[k] # <<>>
    BY <1>1 DEF TypeInv, PlaceInv, TypeOK, CloudTypeOK
  <2>2. Len(copies[k]) # 0
    BY <2>1
  <2>. QED BY <2>2
<1>2. \A k \in Kinds : Len(copies'[k]) <= MaxCopies
  BY DEF TypeInv, TypeOK, CloudTypeOK
<1>. QED BY <1>1, <1>2, SamePlan

LEMMA QuietType ==
    ASSUME TypeInv, QuietStep
    PROVE  TypeInv'
<1>1. /\ UNCHANGED <<spec, local, at, pc, wait, home, on, tagged, faults>>
      /\ stored' \in ObjectType /\ Alike(stored', stored)
      /\ copies' \in [Kinds -> Seq({"pending", "available"})] /\ \A k \in Kinds : Len(copies'[k]) = Len(copies[k])
      /\ cloud' \in [Things -> States]
      /\ phase' \in {"live", "deleting", "gone"} /\ held' \in BOOLEAN
  BY QuietSteps DEF QuietStep
<1>2. Plan' = Plan /\ Kind' = Kind
  BY <1>1, SamePlan
<1>3. /\ \A k \in Kinds : Ref'[k] = "given" => copies'[k] # <<>>
      /\ \A k \in Kinds : Len(copies'[k]) <= MaxCopies
  BY <1>1, CopiesStay
<1>4. PlaceInv'
  BY <1>1, <1>2, <1>3 DEF TypeInv, PlaceInv, Busy
<1>5. CloudTypeOK'
  BY <1>1, <1>3 DEF TypeInv, TypeOK, CloudTypeOK
<1>6. ApiTypeOK' /\ ControllerTypeOK' /\ (faults \in 0..MaxFaults)'
  BY <1>1, <1>2 DEF TypeInv, TypeOK, ApiTypeOK, ControllerTypeOK
<1>7. \A k \in Kinds : stored'.id[k] <= Len(copies'[k]) /\ local'.id[k] <= Len(copies'[k])
  BY <1>1 DEF TypeInv, TypeOK, Alike
<1>. QED BY <1>4, <1>5, <1>6, <1>7 DEF TypeInv, TypeOK

LEMMA FrameType ==
    ASSUME TypeInv, FrameStep
    PROVE  TypeInv'
<1>1. /\ UNCHANGED <<spec, copies, cloud, home, on, tagged, held>>
      /\ local' \in ObjectType /\ stored' \in ObjectType /\ phase' \in {"live", "deleting", "gone"}
      /\ stored'.id \in {stored.id, local.id} /\ local'.id \in {stored.id, local.id, NewObject.id}
      /\ faults' \in 0..MaxFaults
  BY FrameSteps DEF FrameStep
<1>2. Plan' = Plan /\ Len(Plan) \in Nat /\ Len(Plan) > 2 /\ at \in 0..Len(Plan) /\ wait \in BOOLEAN
  BY <1>1, SamePlan, PlanFacts DEF TypeInv, TypeOK, ApiTypeOK, ControllerTypeOK
<1>3. pc' \in {"find", "patch", "idle"} /\ (pc' = "find" => at' \in 1..Len(Plan)) /\ at' \in 0..Len(Plan)
  <2>1. (pc' = "find" /\ at' = 1) \/ (pc' = "patch" /\ at' = at) \/ (pc' = "idle" /\ at' = 0)
    BY DEF FrameStep, StartReconcile, ReconcileDeleteV2, MarkReady, Patch, Crash, Forget
  <2>. QED BY <1>2, <2>1
<1>4. wait' \in BOOLEAN
  <2>1. wait' = wait \/ wait' = FALSE
    BY DEF FrameStep, StartReconcile, ReconcileDeleteV2, MarkReady, Patch, Crash, Forget
  <2>. QED BY <1>2, <2>1
<1>5. \A k \in Kinds : Len(copies'[k]) = Len(copies[k])
  BY <1>1
<1>6. /\ \A k \in Kinds : Ref'[k] = "given" => copies'[k] # <<>>
  BY <1>1, <1>5, CopiesStay
<1>7. PlaceInv'
  BY <1>2, <1>3, <1>6 DEF PlaceInv, Busy, Subnetwork
<1>8. CloudTypeOK'
  BY <1>1 DEF TypeInv, TypeOK, CloudTypeOK
<1>9. ApiTypeOK' /\ ControllerTypeOK'
  BY <1>1, <1>2, <1>3, <1>4 DEF TypeInv, TypeOK, ApiTypeOK, ControllerTypeOK
<1>10. \A k \in Kinds : stored'.id[k] <= Len(copies'[k]) /\ local'.id[k] <= Len(copies'[k])
  <2>1. ASSUME NEW k \in Kinds PROVE NewObject.id[k] <= Len(copies[k])
    <3>1. Len(copies[k]) \in Nat
      BY DEF TypeInv, TypeOK, CloudTypeOK
    <3>. QED BY <3>1 DEF NewObject
  <2>. QED BY <1>1, <2>1 DEF TypeInv, TypeOK
<1>. QED BY <1>1, <1>7, <1>8, <1>9, <1>10 DEF TypeInv, TypeOK

LEMMA InitType == Init => TypeInv
<1>1. SUFFICES ASSUME Init PROVE TypeInv
  OBVIOUS
<1>2. spec \in Specs /\ Len(Plan) \in Nat
  BY <1>1, PlanFacts DEF Init
<1>3. ASSUME NEW k \in Kinds
      PROVE  /\ copies[k] \in Seq({"pending", "available"}) /\ Len(copies[k]) \in Nat /\ Len(copies[k]) <= 1
             /\ Ref[k] = "given" => copies[k] # <<>>
  <2>1. copies[k] = IF Ref[k] = "given" THEN <<"available">> ELSE <<>>
    BY <1>1 DEF Init
  <2>2. /\ <<"available">> \in Seq({"pending", "available"}) /\ Len(<<"available">>) = 1
        /\ <<>> \in Seq({"pending", "available"}) /\ Len(<<>>) = 0 /\ <<"available">> # <<>>
    OBVIOUS
  <2>3. CASE Ref[k] = "given"
    <3>1. copies[k] = <<"available">>
      BY <2>1, <2>3
    <3>. QED BY <2>2, <3>1
  <2>4. CASE Ref[k] # "given"
    <3>1. copies[k] = <<>>
      BY <2>1, <2>4
    <3>. QED BY <2>2, <2>4, <3>1
  <2>. QED BY <2>3, <2>4
<1>4. copies \in [Kinds -> Seq({"pending", "available"})]
  <2>1. copies = [k \in Kinds |-> IF Ref[k] = "given" THEN <<"available">> ELSE <<>>]
    BY <1>1 DEF Init
  <2>. QED BY <1>3, <2>1
<1>5. CloudTypeOK
  BY <1>1, <1>3, <1>4, BoundAssumption DEF Init, CloudTypeOK, States
<1>6. ApiTypeOK /\ ControllerTypeOK
  <2>1. held \in BOOLEAN /\ wait \in BOOLEAN
    BY <1>1 DEF Init
  <2>2. /\ spec \in Specs /\ stored \in ObjectType /\ phase \in {"live", "deleting", "gone"}
        /\ local \in ObjectType /\ at \in 0..Len(Plan) /\ pc = "idle"
    BY <1>1, <1>2, NewObjectType DEF Init
  <2>. QED BY <2>1, <2>2 DEF ApiTypeOK, ControllerTypeOK
<1>7. \A k \in Kinds : stored.id[k] <= Len(copies[k]) /\ local.id[k] <= Len(copies[k])
  BY <1>1, <1>3 DEF Init, NewObject
<1>8. PlaceInv
  BY <1>1, <1>3 DEF Init, PlaceInv, Busy, Subnetwork
<1>9. faults \in 0..MaxFaults
  BY <1>1, BoundAssumption DEF Init
<1>. QED BY <1>5, <1>6, <1>7, <1>8, <1>9 DEF TypeInv, TypeOK

----------------------------------------------------------------------------
(* What exists in IBM Cloud.                                               *)

\* What is about to be created is absent, a group never has to be waited for, and
\* what existed before the cluster stays.
CloudInv ==
    /\ pc \in {"create"} \cup Subnetwork => Kind \in Kinds \/ cloud[Name] = "absent"
    /\ TagInv
    /\ \A g \in Groups : cloud[g] # "pending"
    /\ \A t \in spec.existing : cloud[t] = "available"

\* The two steps that create something in the VPC.
NewState == IF Kind = "group" THEN "available" ELSE "pending"
Gated ==
    /\ pc = "createGateway" /\ Created(Zone[Name], "available") /\ on' = on
    /\ pc' \in {"patch", "tagGateway"} /\ at' = at /\ Alike(local', local)
Made ==
    /\ pc = "create" /\ Kind \in {"control", "worker", "group", "lb"} /\ Created(Name, NewState) /\ at' = at
    /\ local'.id = local.id
    /\ \/ pc' = "patch" /\ local'.rec = local.rec
       \/ pc' = "tag" /\ local'.rec[Plan[at]] = NewState
    /\ IF Kind = "lb"
       THEN on' = [on EXCEPT ![Name] = GetLoadBalancerSubnetIDs \cup GetLoadBalancerSecurityGroupIDs]
       ELSE on' = on

LEMMA WaysOut ==
    ASSUME NEW o, NEW rq
    PROVE  (Done(o, rq) => pc' \in {"find", "patch", "host"}) /\ (Fails(o) => pc' = "patch")
BY DEF Done, Fails

LEMMA MakingOutcome ==
    ASSUME TypeInv, TagInv, ItemSteps
    PROVE  UNCHANGED <<cloud, home, on>> \/ Gated \/ Made
<1>1. Busy
  BY Outcome
<1>2. CASE FindVPC \/ CreateVPC \/ FindCustomImage \/ CreateCustomImage \/ FindSubnet \/ FindPublicGateway
           \/ TagPublicGateway \/ FindSecurityGroup \/ ReconcileSecurityGroupRules \/ FindLoadBalancer \/ TagResource
  BY <1>2 DEF FindVPC, CreateVPC, FindCustomImage, CreateCustomImage, FindSubnet, FindPublicGateway,
     TagPublicGateway, FindSecurityGroup, ReconcileSecurityGroupRules, FindLoadBalancer, TagResource, cloudVars
<1>3. CASE CreatePublicGateway
  <2>1. CASE Fails(local)
    <3>1. pc' = "patch" /\ at' = at /\ Alike(local', local)
      BY <1>1, <2>1, FailsOutcome DEF Ended
    <3>. QED BY <1>3, <3>1 DEF CreatePublicGateway, Gated
  <2>2. CASE ~Fails(local)
    BY <1>3, <2>2 DEF CreatePublicGateway, Gated, Alike
  <2>. QED BY <2>1, <2>2
<1>4. ASSUME pc = "create", Kind \in {"control", "worker", "group", "lb"}, CreatedItem(NewState),
             IF Kind = "lb"
             THEN on' = [on EXCEPT ![Name] = GetLoadBalancerSubnetIDs \cup GetLoadBalancerSecurityGroupIDs]
             ELSE on' = on
      PROVE  Made
  <2>1. NewState \in States /\ Kind # "rules"
    BY <1>4 DEF NewState, States
  <2>2. PICK st \in States : st = NewState
    BY <2>1
  <2>3. /\ (Ended \/ Moved) /\ local'.id = local.id
        /\ pc' = "tag" => local'.rec[Plan[at]] = st
        /\ pc' # "tag" => pc' = "patch" /\ local'.rec = local.rec
    BY <1>1, <1>4, <2>1, <2>2, CreatedOutcome
  <2>4. at' = at
    BY <2>3 DEF Ended, Moved
  <2>. QED BY <1>4, <2>2, <2>3, <2>4 DEF Made, CreatedItem
<1>5. CASE CreateSubnet
  BY <1>4, <1>5 DEF CreateSubnet, NewState
<1>6. CASE CreateSecurityGroup
  BY <1>4, <1>6 DEF CreateSecurityGroup, NewState
<1>7. CASE CreateLoadBalancer
  BY <1>4, <1>7 DEF CreateLoadBalancer, NewState
<1>. QED BY <1>2, <1>3, <1>5, <1>6, <1>7 DEF ItemSteps

\* What is created is another thing than what the gateway is for.
LEMMA NamesApart ==
    ASSUME TypeInv, Busy
    PROVE  /\ Kind \in {"control", "worker"} => Name # Zone[Name] /\ Name \in Subnets /\ Zone[Name] \in Gateways
           /\ \A g \in Groups : Kind \in {"control", "worker"} => g # Name /\ g # Zone[Name]
           /\ \A g \in Groups : Kind = "lb" => g # Name
<1>1. spec \in Specs /\ at \in 1..Len(Plan)
  BY DEF TypeInv, TypeOK, ApiTypeOK, PlaceInv
<1>2. /\ Kind \in {"control", "worker"} => Name \in Subnets /\ Zone[Name] \in Gateways
      /\ Kind = "lb" => Name \in LBs
  BY <1>1, ItemFacts
<1>. QED BY <1>2, NetworkAssumption

\* What is absent, pending or available afterwards.
LEMMA ThingsGrow ==
    ASSUME TypeInv, CloudInv, ItemSteps
    PROVE  /\ \A t \in Things : \/ cloud'[t] = cloud[t] \/ cloud'[t] = "available"
                                \/ t = Name /\ cloud[t] = "absent" /\ cloud'[t] = "pending" /\ Made /\ Kind # "group"
<1>0. cloud \in [Things -> States]
  BY DEF TypeInv, TypeOK, CloudTypeOK
<1>1. UNCHANGED <<cloud, home, on>> \/ Gated \/ Made
  BY MakingOutcome DEF CloudInv
<1>2. CASE UNCHANGED <<cloud, home, on>>
  BY <1>2
<1>3. CASE Gated
  BY <1>0, <1>3 DEF Gated, Created
<1>4. CASE Made
  <2>1. cloud[Name] = "absent"
    BY <1>4 DEF CloudInv, Made, Kinds
  <2>2. cloud' = [cloud EXCEPT ![Name] = NewState]
    BY <1>4 DEF Made, Created
  <2>3. CASE Kind = "group"
    BY <1>0, <2>2, <2>3 DEF NewState
  <2>4. CASE Kind # "group"
    BY <1>0, <1>4, <2>1, <2>2, <2>4 DEF NewState
  <2>. QED BY <2>3, <2>4
<1>. QED BY <1>1, <1>2, <1>3, <1>4

\* Something is created only when it was not found.
LEMMA ItemsCloud ==
    ASSUME TypeInv, CloudInv, ItemSteps
    PROVE  CloudInv'
<1>0. /\ spec \in Specs /\ cloud \in [Things -> States] /\ UNCHANGED spec /\ Busy /\ TagInv
      /\ Plan' = Plan /\ (at' = at => Kind' = Kind /\ Name' = Name)
      /\ at \in 1..Len(Plan)
  BY Outcome, SamePlan DEF TypeInv, PlaceInv, TypeOK, CloudTypeOK, ApiTypeOK, apiVars, CloudInv
<1>1. Writes /\ (Ended \/ Moved \/ Finished)
  BY <1>0, Outcome
<1>2. UNCHANGED <<cloud, home, on>> \/ Gated \/ Made
  BY <1>0, MakingOutcome
<1>3. ASSUME pc' \in {"create"} \cup Subnetwork PROVE Kind' \in Kinds \/ cloud'[Name'] = "absent"
  <2>1. at' = at
    BY <1>1, <1>3 DEF Ended, Moved, Finished, Advances, Subnetwork
  <2>. SUFFICES Kind \in Kinds \/ cloud'[Name] = "absent"
    BY <1>0, <2>1
  <2>2. CASE FindVPC \/ CreateVPC \/ FindCustomImage \/ CreateCustomImage
    BY <2>2 DEF FindVPC, CreateVPC, FindCustomImage, CreateCustomImage, Kinds
  <2>3. CASE FindSubnet \/ FindSecurityGroup \/ FindLoadBalancer
    <3>1. ~Found /\ ~Fails(local) /\ ~Done(Recorded(local, "pending"), TRUE)
      BY <1>3, WaysOut DEF Found, Subnetwork
    <3>. QED BY <2>3, <3>1 DEF FindSubnet, FindSecurityGroup, FindLoadBalancer, cloudVars
  <2>4. CASE FindPublicGateway \/ TagPublicGateway
    BY <2>4 DEF FindPublicGateway, TagPublicGateway, cloudVars, CloudInv, Subnetwork
  <2>5. CASE CreatePublicGateway
    <3>1. Kind \in {"control", "worker"}
      BY <2>5 DEF CreatePublicGateway, TypeInv, PlaceInv, Subnetwork
    <3>2. Name # Zone[Name] /\ Name \in Things
      BY <1>0, <3>1, NamesApart DEF Things
    <3>3. cloud[Name] = "absent" \/ Kind \in Kinds
      BY <2>5 DEF CreatePublicGateway, CloudInv, Subnetwork
    <3>4. cloud'[Name] = cloud[Name]
      BY <1>0, <2>5, <3>2 DEF CreatePublicGateway, Created
    <3>. QED BY <3>3, <3>4
  <2>6. CASE CreateSubnet \/ CreateSecurityGroup \/ CreateLoadBalancer
    <3>1. pc' \in {"patch", "tag"}
      BY <2>6, WaysOut DEF CreateSubnet, CreateSecurityGroup, CreateLoadBalancer, CreatedItem, CreationFails
    <3>. QED BY <1>3, <3>1 DEF Subnetwork
  <2>7. CASE ReconcileSecurityGroupRules \/ TagResource
    <3>1. pc' \in {"find", "patch", "host"}
      BY <2>7, WaysOut DEF ReconcileSecurityGroupRules, TagResource
    <3>. QED BY <1>3, <3>1 DEF Subnetwork
  <2>. QED BY <2>2, <2>3, <2>4, <2>5, <2>6, <2>7 DEF ItemSteps
<1>4. TagInv'
  <2>1. SUFFICES ASSUME pc' = "tag", Kind' = "group" PROVE Settled(local.rec, cloud, Plan[at])'
    BY DEF TagInv
  <2>2. at' = at
    BY <1>1, <2>1 DEF Ended, Moved, Finished, Advances, Subnetwork
  <2>3. Kind = "group" /\ Plan'[at'] = Plan[at] /\ Name \in Groups
    BY <1>0, <2>1, <2>2, ItemFacts
  <2>4. CreateSecurityGroup
    <3>1. ~(CreateVPC \/ CreateCustomImage \/ CreateSubnet \/ CreateLoadBalancer)
      BY <2>3 DEF CreateVPC, CreateCustomImage, CreateSubnet, CreateLoadBalancer
    <3>2. ~(FindVPC \/ FindCustomImage \/ FindSubnet \/ FindSecurityGroup \/ FindLoadBalancer)
      BY <2>1, WaysOut DEF FindVPC, FindCustomImage, FindSubnet, FindSecurityGroup, FindLoadBalancer, Fetched, Found, Absent
    <3>3. ~(FindPublicGateway \/ CreatePublicGateway \/ TagPublicGateway \/ ReconcileSecurityGroupRules \/ TagResource)
      BY <2>1, WaysOut DEF FindPublicGateway, CreatePublicGateway, TagPublicGateway, ReconcileSecurityGroupRules, TagResource, CreationFails
    <3>. QED BY <3>1, <3>2, <3>3 DEF ItemSteps
  <2>5. CreatedItem("available")
    BY <2>1, <2>4, WaysOut DEF CreateSecurityGroup, CreationFails
  <2>6. local'.rec[Plan[at]] = "available"
    BY <1>0, <2>1, <2>3, <2>5, CreatedOutcome DEF States
  <2>7. cloud'[Name] = "available"
    BY <1>0, <2>3, <2>5 DEF CreatedItem, Created, Things
  <2>. QED BY <2>3, <2>6, <2>7 DEF Settled, Name
<1>5. ASSUME NEW t \in Things, cloud[t] = "available" PROVE cloud'[t] = "available"
  BY <1>5, ThingsGrow
<1>6. \A g \in Groups : cloud'[g] # "pending"
  <2>1. SUFFICES ASSUME NEW g \in Groups PROVE cloud'[g] # "pending"
    OBVIOUS
  <2>2. cloud[g] # "pending" /\ g \in Things
    BY DEF CloudInv, Things
  <2>3. g = Name /\ Made => Kind = "group"
    BY <1>0, NamesApart DEF Made
  <2>. QED BY <2>2, <2>3, ThingsGrow
<1>7. \A t \in spec'.existing : cloud'[t] = "available"
  <2>1. spec.existing \subseteq Things
    BY <1>0, SpecAssumption DEF SpecType
  <2>. QED BY <1>0, <1>5, <2>1 DEF CloudInv
<1>. QED BY <1>3, <1>4, <1>6, <1>7 DEF CloudInv

LEMMA QuietCloud ==
    ASSUME TypeInv, CloudInv, QuietStep
    PROVE  CloudInv'
<1>1. /\ UNCHANGED <<spec, local, at, pc>>
      /\ \A t \in Things : cloud'[t] = cloud[t] \/ (cloud[t] = "pending" /\ cloud'[t] = "available")
  BY QuietSteps DEF QuietStep
<1>2. Plan' = Plan /\ Kind' = Kind /\ Name' = Name /\ spec \in Specs
  BY <1>1, SamePlan DEF TypeInv, TypeOK, ApiTypeOK
<1>3. spec.existing \subseteq Things /\ Groups \subseteq Things
  BY <1>2, SpecAssumption DEF SpecType, Things
<1>4. Busy => Kind \in Kinds \/ Name \in Things
  <2>1. Busy => at \in 1..Len(Plan)
    BY DEF TypeInv, PlaceInv
  <2>. QED BY <1>2, <2>1, ItemFacts, NetworkAssumption DEF Kinds, Things, Sort, TypeInv, PlaceInv
<1>5. pc' \in {"create"} \cup Subnetwork => Kind' \in Kinds \/ cloud'[Name'] = "absent"
  BY <1>1, <1>2, <1>4 DEF CloudInv, Busy, Subnetwork
<1>6. TagInv'
  <2>1. SUFFICES ASSUME pc = "tag", Kind = "group" PROVE Settled(local.rec, cloud, Plan[at])'
    BY <1>1, <1>2 DEF TagInv
  <2>2. Settled(local.rec, cloud, Plan[at])
    BY <2>1 DEF TagInv, CloudInv
  <2>3. Name \in Things
    BY <1>4, <2>1 DEF Busy, Kinds
  <2>4. cloud'[Name] = "available"
    BY <1>1, <2>1, <2>2, <2>3 DEF Settled, IsThing, Kind, Name
  <2>. QED BY <1>1, <1>2, <2>1, <2>2, <2>4 DEF Settled, Name, Exempt, Kind
<1>7. \A g \in Groups : cloud'[g] # "pending"
  BY <1>1, <1>3 DEF CloudInv
<1>8. \A t \in spec'.existing : cloud'[t] = "available"
  BY <1>1, <1>3 DEF CloudInv
<1>. QED BY <1>5, <1>6, <1>7, <1>8 DEF CloudInv

LEMMA FrameCloud ==
    ASSUME TypeInv, CloudInv, FrameStep
    PROVE  CloudInv'
<1>1. UNCHANGED <<spec, cloud>>
  BY FrameSteps DEF FrameStep
<1>2. pc' \in {"find", "patch", "idle"}
  BY DEF FrameStep, StartReconcile, ReconcileDeleteV2, MarkReady, Patch, Crash, Forget
<1>. QED BY <1>1, <1>2 DEF CloudInv, TagInv, Subnetwork

LEMMA InitCloud == Init => CloudInv
<1>1. SUFFICES ASSUME Init PROVE CloudInv
  OBVIOUS
<1>2. spec.existing \subseteq Things /\ Groups \subseteq Things
  BY <1>1, SpecAssumption DEF Init, SpecType, Things
<1>. QED BY <1>1, <1>2 DEF Init, CloudInv, TagInv, Subnetwork

LEMMA Basics == Spec => [](TypeInv /\ CloudInv)
<1>1. Init => TypeInv /\ CloudInv
  BY InitType, InitCloud
<1>2. TypeInv /\ CloudInv /\ [Next]_vars => (TypeInv /\ CloudInv)'
  <2>1. SUFFICES ASSUME TypeInv, CloudInv, [Next]_vars PROVE TypeInv' /\ CloudInv'
    OBVIOUS
  <2>2. TagInv
    BY <2>1 DEF CloudInv
  <2>3. CASE QuietStep
    BY <2>1, <2>3, QuietType, QuietCloud
  <2>4. CASE FrameStep
    BY <2>1, <2>4, FrameType, FrameCloud
  <2>5. CASE ItemSteps
    BY <2>1, <2>2, <2>5, ItemsType, ItemsCloud
  <2>. QED BY <2>1, <2>3, <2>4, <2>5, NextSteps
<1>. QED BY <1>1, <1>2, PTL DEF Spec

\* Every variable keeps its type, and an ID, persisted or not, is that of a VPC or
\* image that was created (SetVPCStatus, SetImageStatus after the creation).
THEOREM TypeCorrect == Spec => []TypeOK
<1>1. TypeInv => TypeOK
  BY DEF TypeInv
<1>. QED BY <1>1, Basics, PTL

----------------------------------------------------------------------------
(* One network.                                                            *)

\* The number of VPCs, and the IDs of the VPC in the two objects.
VPCs == Len(copies["vpc"])
StoredVPC == stored.id["vpc"]
LocalVPC == local.id["vpc"]

\* A VPC that can be found is never created again, so there is one of them; one
\* without a name is found by the persisted ID only, and nothing is created in it
\* before that ID is persisted.
HomeInv ==
    /\ \A t \in Things : home[t] <= VPCs
    /\ spec.vpc # "unnamed" => VPCs <= 1
    /\ pc = "create" /\ at = 1 => LocalVPC = 0 /\ (spec.vpc # "unnamed" => VPCs = 0)
    /\ at > 1 => LocalVPC # 0
    /\ pc = "idle" => LocalVPC = 0
    /\ pc # "idle" /\ StoredVPC # 0 => LocalVPC = StoredVPC
    /\ pc = "find" /\ at = 1 => LocalVPC = StoredVPC
    /\ spec.vpc = "unnamed" /\ at > 1 => StoredVPC = LocalVPC
    /\ spec.vpc = "unnamed" => \A t \in Things : home[t] # 0 => StoredVPC = home[t]

LEMMA VPCTypes ==
    ASSUME TypeInv
    PROVE  /\ VPCs \in Nat /\ StoredVPC \in Nat /\ LocalVPC \in Nat /\ at \in Nat
           /\ StoredVPC <= VPCs /\ LocalVPC <= VPCs
           /\ home \in [Things -> Nat] /\ spec.vpc \in {"given", "name", "unnamed"}
           /\ spec \in Specs
<1>1. "vpc" \in Kinds /\ MaxCopies \in Nat
  BY BoundAssumption DEF Kinds
<1>2. /\ copies \in [Kinds -> Seq({"pending", "available"})] /\ home \in [Things -> 0..MaxCopies]
      /\ stored.id["vpc"] \in 0..MaxCopies /\ local.id["vpc"] \in 0..MaxCopies /\ at \in 0..Len(Plan) /\ spec \in Specs
      /\ stored.id["vpc"] <= Len(copies["vpc"]) /\ local.id["vpc"] <= Len(copies["vpc"])
  BY <1>1 DEF TypeInv, TypeOK, CloudTypeOK, ApiTypeOK, ControllerTypeOK, ObjectType
<1>3. Len(copies["vpc"]) \in Nat
  BY <1>1, <1>2
<1>4. Len(Plan) \in Nat
  BY <1>2, PlanFacts
<1>5. home \in [Things -> Nat]
  BY <1>1, <1>2
<1>6. spec.vpc \in {"given", "name", "unnamed"}
  BY <1>2, SpecAssumption DEF SpecType
<1>. QED BY <1>1, <1>2, <1>3, <1>4, <1>5, <1>6 DEF VPCs, StoredVPC, LocalVPC

LEMMA VPCNumber ==
    ASSUME TypeInv
    PROVE  /\ LocalVPC # 0 => GetVPCID = LocalVPC
           /\ GetVPCID = 0 => LocalVPC = 0 /\ (spec.vpc # "unnamed" => VPCs = 0)
           /\ GetVPCID # 0 /\ spec.vpc = "unnamed" => GetVPCID = LocalVPC
<1>1. spec.vpc \in {"given", "name", "unnamed"}
  BY VPCTypes
<1>2. copies["vpc"] = <<>> => VPCs = 0
  BY DEF VPCs
<1>. QED BY <1>1, <1>2 DEF GetVPCID, LocalVPC

LEMMA InitHome == Init => HomeInv
<1>1. SUFFICES ASSUME Init PROVE HomeInv
  OBVIOUS
<1>2. TypeInv /\ StoredVPC = 0 /\ LocalVPC = 0 /\ at = 0 /\ pc = "idle"
  BY <1>1, InitType DEF Init, NewObject, StoredVPC, LocalVPC, Kinds
<1>3. VPCs = IF spec.vpc = "given" THEN 1 ELSE 0
  <2>1. copies["vpc"] = IF spec.vpc = "given" THEN <<"available">> ELSE <<>>
    BY <1>1 DEF Init, Ref, Kinds
  <2>2. Len(<<"available">>) = 1 /\ Len(<<>>) = 0
    OBVIOUS
  <2>. QED BY <2>1, <2>2 DEF VPCs
<1>4. ASSUME NEW t \in Things PROVE home[t] <= VPCs /\ (home[t] # 0 => spec.vpc = "given")
  <2>1. home[t] = IF t \in spec.existing THEN 1 ELSE 0
    BY <1>1 DEF Init
  <2>2. t \in spec.existing => spec.vpc = "given"
    BY <1>1, SpecAssumption DEF Init
  <2>. QED BY <1>3, <2>1, <2>2
<1>. QED BY <1>2, <1>3, <1>4 DEF HomeInv

LEMMA QuietHome ==
    ASSUME TypeInv, HomeInv, QuietStep
    PROVE  HomeInv'
<1>1. UNCHANGED <<spec, local, at, pc, home>> /\ Alike(stored', stored) /\ \A k \in Kinds : Len(copies'[k]) = Len(copies[k])
  BY QuietSteps DEF QuietStep
<1>2. VPCs' = VPCs /\ StoredVPC' = StoredVPC /\ LocalVPC' = LocalVPC
  BY <1>1 DEF VPCs, StoredVPC, LocalVPC, Alike, Kinds
<1>. QED BY <1>1, <1>2 DEF HomeInv

LEMMA FrameHome ==
    ASSUME TypeInv, HomeInv, FrameStep
    PROVE  HomeInv'
<1>1. UNCHANGED <<spec, copies, home>> /\ VPCs' = VPCs
  BY FrameSteps DEF FrameStep, VPCs
<1>2. VPCs \in Nat /\ StoredVPC \in Nat /\ LocalVPC \in Nat /\ at \in Nat
  BY VPCTypes
<1>3. CASE StartReconcile
  <2>1. StoredVPC' = StoredVPC /\ LocalVPC' = StoredVPC /\ at' = 1 /\ pc' = "find"
    BY <1>3 DEF StartReconcile, apiVars, StoredVPC, LocalVPC
  <2>. QED BY <1>1, <2>1 DEF HomeInv
<1>4. CASE ReconcileDeleteV2
  <2>1. local'.id = stored.id
    BY <1>4, ObjectUpdates DEF ReconcileDeleteV2, TypeInv, TypeOK, ApiTypeOK, Alike
  <2>2. StoredVPC' = StoredVPC /\ LocalVPC' = StoredVPC /\ at' = at /\ pc = "idle" /\ pc' = "patch"
    BY <1>4, <2>1 DEF ReconcileDeleteV2, apiVars, StoredVPC, LocalVPC
  <2>3. ~(at > 1)
    BY <2>2 DEF HomeInv
  <2>. QED BY <1>1, <2>2, <2>3 DEF HomeInv
<1>5. CASE MarkReady
  <2>1. local'.id = local.id
    BY <1>5 DEF MarkReady, TypeInv, TypeOK, ControllerTypeOK, ObjectType
  <2>2. StoredVPC' = StoredVPC /\ LocalVPC' = LocalVPC /\ at' = at /\ pc = "host" /\ pc' = "patch"
    BY <1>5, <2>1 DEF MarkReady, apiVars, StoredVPC, LocalVPC
  <2>. QED BY <1>1, <2>2 DEF HomeInv
<1>6. CASE Patch \/ Crash
  <2>1. LocalVPC' = 0 /\ at' = 0 /\ pc' = "idle" /\ pc # "idle"
    BY <1>6 DEF Patch, Crash, Forget, NewObject, LocalVPC, Kinds
  <2>2. StoredVPC' \in {StoredVPC, LocalVPC}
    BY FrameSteps DEF FrameStep, StoredVPC, LocalVPC
  <2>3. StoredVPC # 0 => StoredVPC' = StoredVPC
    BY <2>1, <2>2 DEF HomeInv
  <2>. QED BY <1>1, <2>1, <2>2, <2>3 DEF HomeInv
<1>. QED BY <1>3, <1>4, <1>5, <1>6 DEF FrameStep

\* Past the VPC nothing changes it, and things are created in the one of the status.
LEMMA LaterHome ==
    ASSUME TypeInv, TagInv, HomeInv, ItemSteps, at # 1
    PROVE  HomeInv'
<1>0. /\ VPCs \in Nat /\ StoredVPC \in Nat /\ LocalVPC \in Nat /\ at \in Nat /\ LocalVPC <= VPCs
      /\ home \in [Things -> Nat] /\ spec \in Specs
  BY VPCTypes
<1>1. Writes /\ (Ended \/ Moved \/ Finished) /\ UNCHANGED <<spec, stored>> /\ Busy /\ at \in 1..Len(Plan)
  BY Outcome DEF apiVars, TypeInv, PlaceInv
<1>2. Kind # "vpc" /\ at > 1
  BY <1>0, <1>1, ItemFacts
<1>3. VPCs' = VPCs /\ LocalVPC' = LocalVPC /\ StoredVPC' = StoredVPC
  <2>1. copies'["vpc"] = copies["vpc"]
    <3>1. CASE CreateCustomImage
      <4>1. CASE NewCopy("image")
        BY <4>1 DEF NewCopy, TypeInv, TypeOK, CloudTypeOK, Kinds
      <4>. QED BY <3>1, <4>1 DEF CreateCustomImage
    <3>2. CASE ~CreateCustomImage
      BY <1>2, <3>2 DEF ItemSteps, FindVPC, CreateVPC, FindCustomImage, FindSubnet, FindPublicGateway,
         CreatePublicGateway, TagPublicGateway, CreateSubnet, FindSecurityGroup, CreateSecurityGroup,
         ReconcileSecurityGroupRules, FindLoadBalancer, CreateLoadBalancer, TagResource, cloudVars
    <3>. QED BY <3>1, <3>2
  <2>. QED BY <1>1, <1>2, <2>1 DEF VPCs, LocalVPC, StoredVPC, Writes, Kinds
<1>4. at' > 1 /\ pc' # "idle"
  BY <1>0, <1>1, <1>2 DEF Ended, Moved, Finished, Advances, Subnetwork
<1>5. LocalVPC # 0 /\ GetVPCID = LocalVPC
  BY <1>2, VPCNumber DEF HomeInv
<1>6. ASSUME NEW t \in Things PROVE home'[t] \in {home[t], LocalVPC}
  <2>1. UNCHANGED home \/ \E u : home' = [home EXCEPT ![u] = GetVPCID]
    BY MakingOutcome DEF Gated, Made, Created
  <2>. QED BY <1>0, <1>5, <2>1
<1>7. \A t \in Things : home'[t] <= VPCs'
  BY <1>0, <1>3, <1>6 DEF HomeInv
<1>8. spec.vpc = "unnamed" => \A t \in Things : home'[t] # 0 => StoredVPC' = home'[t]
  BY <1>2, <1>3, <1>6 DEF HomeInv
<1>9. at' # 1
  BY <1>4
<1>. QED BY <1>0, <1>1, <1>2, <1>3, <1>4, <1>5, <1>7, <1>8, <1>9 DEF HomeInv

\* The VPC itself: found by its ID, or by the spec, or created.
LEMMA FirstHome ==
    ASSUME TypeInv, TagInv, HomeInv, ItemSteps, at = 1
    PROVE  HomeInv'
<1>0. /\ VPCs \in Nat /\ StoredVPC \in Nat /\ LocalVPC \in Nat /\ LocalVPC <= VPCs
      /\ home \in [Things -> Nat] /\ spec \in Specs
  BY VPCTypes
<1>1. Busy /\ UNCHANGED <<spec, stored>> /\ StoredVPC' = StoredVPC /\ at \in 1..Len(Plan)
  BY Outcome DEF apiVars, TypeInv, PlaceInv, StoredVPC
<1>2. Kind = "vpc"
  BY <1>0, <1>1, ItemFacts
<1>3. UNCHANGED home
  BY <1>2, MakingOutcome DEF Gated, Made, TypeInv, PlaceInv, Subnetwork
<1>4. local.id \in [Kinds -> 0..MaxCopies] /\ "vpc" \in Kinds
  BY DEF TypeInv, TypeOK, ControllerTypeOK, ObjectType, Kinds
<1>5. FindVPC \/ CreateVPC \/ TagResource
  BY <1>2 DEF ItemSteps, FindCustomImage, CreateCustomImage, FindSubnet, FindPublicGateway,
     CreatePublicGateway, TagPublicGateway, CreateSubnet, FindSecurityGroup, CreateSecurityGroup,
     ReconcileSecurityGroupRules, FindLoadBalancer, CreateLoadBalancer, TypeInv, PlaceInv, Subnetwork
<1>6. ASSUME UNCHANGED copies, Ended, Alike(local', local) PROVE HomeInv'
  <2>1. VPCs' = VPCs /\ LocalVPC' = LocalVPC /\ at' = 1 /\ pc' = "patch" /\ pc # "idle"
    BY <1>1, <1>6 DEF VPCs, LocalVPC, Alike, Ended, Busy
  <2>. QED BY <1>1, <1>3, <2>1 DEF HomeInv
<1>7. CASE FindVPC
  <2>1. UNCHANGED copies /\ VPCs' = VPCs /\ pc = "find" /\ LocalVPC = StoredVPC
    BY <1>7 DEF FindVPC, cloudVars, VPCs, HomeInv
  <2>2. CASE Fails(local)
    BY <1>1, <1>6, <2>1, <2>2, FailsOutcome
  <2>3. CASE spec.vpc = "name" /\ local.id["vpc"] = 0 /\ Fails(Identified(local, "vpc", GetVPCID, "available"))
    <3>1. GetVPCID \in 0..MaxCopies
      <4>1. Len(copies["vpc"]) <= MaxCopies /\ MaxCopies \in Nat
        BY BoundAssumption DEF TypeInv, TypeOK, CloudTypeOK, Kinds
      <4>. QED BY <4>1, CopyNumbers
    <3>2. Ended
      BY <1>1, <1>2, <2>3, <3>1, NamedOutcome
    <3>3. at' = 1 /\ pc' = "patch" /\ StoredVPC = 0
      BY <2>1, <2>3, <3>2 DEF Ended, LocalVPC
    <3>. QED BY <1>1, <1>3, <2>1, <2>3, <3>3 DEF HomeInv
  <2>4. CASE GetVPCID = 0 /\ Absent
    <3>1. pc' = "create" /\ at' = 1 /\ LocalVPC' = LocalVPC
      BY <2>4 DEF Absent, LocalVPC
    <3>2. LocalVPC = 0 /\ (spec.vpc # "unnamed" => VPCs = 0)
      BY <2>4, VPCNumber
    <3>. QED BY <1>1, <1>3, <2>1, <3>1, <3>2 DEF HomeInv
  <2>5. CASE GetVPCID # 0 /\ Fetched("vpc", GetVPCID)
    <3>1. GetVPCID \in 1..Len(copies["vpc"])
      BY <2>5, CopyNumbers
    <3>2. local'.id = [local.id EXCEPT !["vpc"] = GetVPCID] /\ \E rq \in BOOLEAN : Advances(rq)
      <4>1. UNCHANGED <<copies, cloud, home, on>>
        BY <1>7 DEF FindVPC, cloudVars
      <4>. QED BY <1>1, <1>2, <1>4, <2>5, <3>1, <4>1, FetchedOutcome
    <3>3. LocalVPC' = GetVPCID
      BY <1>4, <3>2 DEF LocalVPC
    <3>4. at' \in {1, 2} /\ pc' # "create" /\ pc' # "idle" /\ (pc' = "find" => at' = 2)
      BY <3>2 DEF Advances
    <3>5. /\ LocalVPC # 0 => GetVPCID = LocalVPC
          /\ spec.vpc = "unnamed" => GetVPCID = LocalVPC
      BY <2>5, VPCNumber
    <3>6. StoredVPC # 0 => GetVPCID = StoredVPC
      BY <2>1, <3>5
    <3>. QED BY <1>1, <1>3, <2>1, <2>5, <3>3, <3>4, <3>5, <3>6 DEF HomeInv
  <2>. QED BY <1>7, <2>2, <2>3, <2>4, <2>5 DEF FindVPC
<1>8. CASE CreateVPC
  <2>1. LocalVPC = 0 /\ StoredVPC = 0 /\ (spec.vpc # "unnamed" => VPCs = 0) /\ pc # "idle"
    BY <1>1, <1>8 DEF CreateVPC, HomeInv
  <2>2. CASE CreationFails /\ UNCHANGED copies
    BY <1>1, <1>6, <2>2, CreationFailsOutcome
  <2>3. CASE NewCopy("vpc")
    <3>1. /\ Ended \/ Moved
          /\ Len(copies'["vpc"]) = Len(copies["vpc"]) + 1
          /\ pc' \in {"patch", "tag"}
      BY <1>1, <1>2, <1>4, <2>3, NewCopyOutcome
    <3>2. VPCs' = VPCs + 1 /\ at' = 1
      BY <3>1 DEF VPCs, Ended, Moved
    <3>3. spec.vpc = "unnamed" => \A t \in Things : home[t] = 0
      BY <2>1 DEF HomeInv
    <3>4. \A t \in Things : home'[t] <= VPCs'
      BY <1>0, <1>3, <3>2 DEF HomeInv
    <3>5. spec.vpc # "unnamed" => VPCs' <= 1
      BY <2>1, <3>2
    <3>. QED BY <1>1, <1>3, <2>1, <3>1, <3>2, <3>3, <3>4, <3>5 DEF HomeInv
  <2>4. CASE Fails(Grouped(local)) /\ UNCHANGED copies
    BY <1>1, <1>6, <2>4, FailsOutcome
  <2>. QED BY <1>8, <2>2, <2>3, <2>4 DEF CreateVPC
<1>9. CASE TagResource
  <2>1. UNCHANGED <<copies, cloud, home, on>>
    BY <1>9 DEF TagResource
  <2>2. CASE Fails(local)
    BY <1>1, <1>6, <2>1, <2>2, FailsOutcome
  <2>3. CASE Done(local, Kind # "group")
    <3>1. Done(local, TRUE)
      BY <1>2, <2>3 DEF Done
    <3>2. local'.id = local.id /\ Advances(TRUE)
      BY <1>1, <2>1, <3>1, DoneOutcome
    <3>3. ~(at < Len(Plan) /\ StageOf(Plan[at + 1][1]) = StageOf(Kind))
      <4>1. Plan[2] = <<"image", "image">>
        BY <1>0, PlanOfFacts DEF Plan, Plans
      <4>. QED BY <1>2, <4>1 DEF StageOf
    <3>4. pc' = "patch" /\ at' = 1 /\ LocalVPC' = LocalVPC /\ VPCs' = VPCs
      BY <2>1, <3>2, <3>3 DEF Advances, LocalVPC, VPCs
    <3>. QED BY <1>1, <1>3, <1>9, <3>4 DEF HomeInv, TagResource
  <2>. QED BY <1>9, <2>2, <2>3 DEF TagResource
<1>. QED BY <1>5, <1>7, <1>8, <1>9

\* Everything is created in one VPC that later reconciles find again, although the
\* ID of a VPC may be lost (patchIBMVPCCluster failed, or the controller crashed
\* after CreateVPC): nothing is put into it before its ID is persisted or its name
\* is there to look for.
THEOREM EverythingInOneVPC == Spec => []OneNetwork
<1>1. Init => TypeInv /\ CloudInv /\ HomeInv
  BY InitType, InitCloud, InitHome
<1>2. TypeInv /\ CloudInv /\ HomeInv /\ [Next]_vars => HomeInv'
  <2>1. SUFFICES ASSUME TypeInv, CloudInv, HomeInv, [Next]_vars PROVE HomeInv'
    OBVIOUS
  <2>2. TagInv
    BY <2>1 DEF CloudInv
  <2>3. CASE QuietStep
    BY <2>1, <2>3, QuietHome
  <2>4. CASE FrameStep
    BY <2>1, <2>4, FrameHome
  <2>5. CASE ItemSteps
    BY <2>1, <2>2, <2>5, FirstHome, LaterHome
  <2>. QED BY <2>1, <2>3, <2>4, <2>5, NextSteps
<1>3. TypeInv /\ HomeInv => OneNetwork
  <2>1. SUFFICES ASSUME TypeInv, HomeInv, NEW t \in Things, home[t] # 0
                 PROVE  /\ StoredVPC \in {0, home[t]} /\ LocalVPC \in {0, home[t]}
                        /\ StoredVPC = 0 => spec.vpc # "unnamed"
    BY DEF OneNetwork, StoredVPC, LocalVPC, Ref, Kinds
  <2>2. /\ VPCs \in Nat /\ StoredVPC \in Nat /\ LocalVPC \in Nat /\ StoredVPC <= VPCs /\ LocalVPC <= VPCs
        /\ home[t] \in Nat /\ home[t] <= VPCs
    BY <2>1, VPCTypes DEF HomeInv
  <2>3. CASE spec.vpc # "unnamed"
    <3>1. VPCs <= 1
      BY <2>1, <2>3 DEF HomeInv
    <3>. QED BY <2>1, <2>2, <2>3, <3>1
  <2>4. CASE spec.vpc = "unnamed"
    <3>1. StoredVPC = home[t]
      BY <2>1, <2>4 DEF HomeInv
    <3>2. LocalVPC = 0 \/ LocalVPC = StoredVPC
      BY <2>1, <3>1 DEF HomeInv
    <3>. QED BY <2>1, <3>1, <3>2
  <2>. QED BY <2>3, <2>4
<1>. QED BY <1>1, <1>2, <1>3, Basics, PTL DEF Spec

----------------------------------------------------------------------------
(* What a reconcile has gone through.                                      *)

\* The items before the current one are settled, unless their stage is the current
\* one and will be come back to; at the end, all are.
Passed(k) ==
    \/ wait /\ StageOf(Plan[k][1]) = StageOf(Kind)
    \/ Plan[k] = Plan[at]
    \/ Settled(local.rec, cloud, Plan[k])
PassedInv ==
    /\ Busy => \A k \in 1..Len(Plan) : k < at => Passed(k)
    /\ pc = "host" => \A k \in 1..Len(Plan) : Settled(local.rec, cloud, Plan[k])

\* What is settled stays so.
LEMMA SettledStays ==
    ASSUME spec \in Specs, spec' = spec, NEW k \in 1..Len(Plan), NEW rec, NEW rec1, NEW c, NEW c1,
           rec1[Plan[k]] = rec[Plan[k]], \A t \in Things : c[t] = "available" => c1[t] = "available",
           Settled(rec, c, Plan[k])
    PROVE  Settled(rec1, c1, Plan[k])
<1>1. IsThing(Plan[k]) => Plan[k][2] \in Things
  BY PlanFacts DEF IsItem, IsThing, Things
<1>. QED BY <1>1 DEF Settled

LEMMA ItemsPassed ==
    ASSUME TypeInv, CloudInv, PassedInv, ItemSteps
    PROVE  PassedInv'
<1>0. /\ spec \in Specs /\ UNCHANGED spec /\ Busy /\ TagInv /\ Plan' = Plan /\ at \in 1..Len(Plan) /\ wait \in BOOLEAN
      /\ Len(Plan) \in Nat
  BY Outcome, SamePlan, PlanFacts DEF TypeInv, PlaceInv, TypeOK, ApiTypeOK, ControllerTypeOK, apiVars, CloudInv
<1>1. Writes /\ (Ended \/ Moved \/ Finished)
  BY <1>0, Outcome
<1>2. ASSUME NEW k \in 1..Len(Plan), Plan[k] # Plan[at], Settled(local.rec, cloud, Plan[k])
      PROVE  Settled(local'.rec, cloud', Plan[k])
  <2>1. Plan[k] \in Items
    BY <1>0, PlanFacts DEF IsItem
  <2>2. local'.rec[Plan[k]] = local.rec[Plan[k]]
    BY <1>1, <1>2, <2>1 DEF Writes
  <2>3. \A t \in Things : cloud[t] = "available" => cloud'[t] = "available"
    BY ThingsGrow
  <2>. QED BY <1>0, <1>2, <2>2, <2>3, SettledStays
<1>3. ASSUME NEW k \in 1..Len(Plan), Settled(local'.rec, cloud', Plan[k])
      PROVE  Settled(local.rec, cloud, Plan[k])'
  BY <1>0, <1>3 DEF Settled, Exempt
<1>4. \A k \in 1..Len(Plan) : k < at => Passed(k)
  BY <1>0 DEF PassedInv
<1>5. CASE Ended
  BY <1>5 DEF Ended, PassedInv, Busy
<1>6. CASE Moved
  <2>1. at' = at /\ wait' = wait /\ Kind' = Kind /\ pc' # "host"
    BY <1>0, <1>6, SamePlan DEF Moved, Subnetwork
  <2>2. ASSUME NEW k \in 1..Len(Plan), k < at PROVE Passed(k)'
    BY <1>0, <1>2, <1>3, <1>4, <2>1, <2>2 DEF Passed
  <2>. QED BY <1>0, <2>1, <2>2 DEF PassedInv
<1>7. CASE Finished
  <2>1. PICK rq \in BOOLEAN : Advances(rq) /\ (~rq => Settled(local'.rec, cloud, Plan[at]))
    BY <1>7 DEF Finished
  <2>2. cloud' = cloud
    BY <1>7 DEF Finished
  <2>3. ASSUME ~wait, ~rq, NEW k \in 1..Len(Plan), k <= at PROVE Settled(local.rec, cloud, Plan[k])'
    <3>1. CASE Plan[k] = Plan[at]
      BY <1>3, <2>1, <2>2, <2>3, <3>1
    <3>2. CASE Plan[k] # Plan[at]
      <4>1. k < at
        BY <1>0, <2>3, <3>2
      <4>2. Settled(local.rec, cloud, Plan[k])
        BY <1>4, <2>3, <3>2, <4>1 DEF Passed
      <4>. QED BY <1>2, <1>3, <3>2, <4>2
    <3>. QED BY <3>1, <3>2
  <2>4. CASE /\ at < Len(Plan) /\ StageOf(Plan[at + 1][1]) = StageOf(Kind)
             /\ pc' = "find" /\ at' = at + 1 /\ wait' = (wait \/ rq)
    <3>1. StageOf(Kind') = StageOf(Kind)
      BY <1>0, <2>4 DEF Kind
    <3>2. ASSUME NEW k \in 1..Len(Plan), k < at' PROVE Passed(k)'
      <4>1. k <= at
        BY <1>0, <2>4, <3>2
      <4>2. CASE wait \/ rq
        <5>1. wait'
          BY <2>4, <4>2
        <5>2. CASE StageOf(Plan[k][1]) = StageOf(Kind)
          BY <1>0, <3>1, <5>1, <5>2 DEF Passed
        <5>3. CASE StageOf(Plan[k][1]) # StageOf(Kind)
          <6>1. Plan[k] # Plan[at] /\ k < at
            BY <1>0, <4>1, <5>3 DEF Kind
          <6>2. Settled(local.rec, cloud, Plan[k])
            BY <1>4, <5>3, <6>1 DEF Passed
          <6>. QED BY <1>2, <1>3, <6>1, <6>2 DEF Passed
        <5>. QED BY <5>2, <5>3
      <4>3. CASE ~wait /\ ~rq
        BY <2>3, <4>1, <4>3 DEF Passed
      <4>. QED BY <4>2, <4>3
    <3>. QED BY <1>0, <2>4, <3>2 DEF PassedInv
  <2>5. CASE pc' = "patch"
    BY <2>5 DEF PassedInv, Busy
  <2>6. CASE at < Len(Plan) /\ ~wait /\ ~rq /\ pc' = "find" /\ at' = at + 1
    <3>1. ASSUME NEW k \in 1..Len(Plan), k < at' PROVE Passed(k)'
      <4>1. k <= at
        BY <1>0, <2>6, <3>1
      <4>. QED BY <2>3, <2>6, <4>1 DEF Passed
    <3>. QED BY <1>0, <2>6, <3>1 DEF PassedInv
  <2>7. CASE at = Len(Plan) /\ ~wait /\ ~rq /\ pc' = "host" /\ at' = at
    <3>1. ASSUME NEW k \in 1..Len(Plan) PROVE Settled(local.rec, cloud, Plan[k])' /\ Passed(k)'
      <4>1. k <= at
        BY <1>0, <2>7
      <4>. QED BY <2>3, <2>7, <4>1 DEF Passed
    <3>. QED BY <1>0, <3>1 DEF PassedInv
  <2>. QED BY <2>1, <2>4, <2>5, <2>6, <2>7 DEF Advances
<1>. QED BY <1>1, <1>5, <1>6, <1>7

LEMMA QuietPassed ==
    ASSUME TypeInv, PassedInv, QuietStep
    PROVE  PassedInv'
<1>1. /\ UNCHANGED <<spec, local, at, pc, wait>>
      /\ \A t \in Things : cloud'[t] = cloud[t] \/ (cloud[t] = "pending" /\ cloud'[t] = "available")
  BY QuietSteps DEF QuietStep
<1>2. Plan' = Plan /\ Kind' = Kind /\ spec \in Specs
  BY <1>1, SamePlan DEF TypeInv, TypeOK, ApiTypeOK
<1>3. \A t \in Things : cloud[t] = "available" => cloud'[t] = "available"
  BY <1>1
<1>4. ASSUME NEW k \in 1..Len(Plan), Settled(local.rec, cloud, Plan[k])
      PROVE  Settled(local.rec, cloud, Plan[k])'
  <2>1. Settled(local.rec, cloud', Plan[k])
    BY <1>1, <1>2, <1>3, <1>4, SettledStays
  <2>. QED BY <1>1, <1>2, <2>1 DEF Settled, Exempt
<1>5. ASSUME NEW k \in 1..Len(Plan), Passed(k) PROVE Passed(k)'
  BY <1>1, <1>2, <1>4, <1>5 DEF Passed
<1>. QED BY <1>1, <1>2, <1>4, <1>5 DEF PassedInv, Busy

LEMMA FramePassed ==
    ASSUME TypeInv, FrameStep
    PROVE  PassedInv'
<1>1. (pc' = "find" /\ at' = 1) \/ pc' = "patch" \/ pc' = "idle"
  BY DEF FrameStep, StartReconcile, ReconcileDeleteV2, MarkReady, Patch, Crash, Forget
<1>2. Plan' = Plan /\ Len(Plan) \in Nat
  BY FrameSteps, SamePlan, PlanFacts DEF FrameStep, TypeInv, TypeOK, ApiTypeOK
<1>. QED BY <1>1, <1>2 DEF PassedInv, Busy

LEMMA InitPassed == Init => PassedInv
BY DEF Init, PassedInv, Busy

\* The status has entries for the items of the plan only.
RecInv == \A i \in Items : stored.rec[i] # "absent" \/ local.rec[i] # "absent" => i \in Range(Plan)

LEMMA InitRec == Init => RecInv
BY DEF Init, RecInv, NewObject

LEMMA NextRec ==
    ASSUME TypeInv, TagInv, RecInv, [Next]_vars
    PROVE  RecInv'
<1>1. CASE QuietStep
  <2>1. UNCHANGED <<spec, local>> /\ stored'.rec = stored.rec
    BY <1>1, QuietSteps DEF QuietStep, Alike
  <2>2. Plan' = Plan
    BY <2>1, SamePlan
  <2>. QED BY <2>1, <2>2 DEF RecInv
<1>2. CASE FrameStep
  <2>1. /\ UNCHANGED spec /\ stored'.rec \in {stored.rec, local.rec}
        /\ local'.rec \in {stored.rec, local.rec, NewObject.rec}
    BY <1>2, FrameSteps DEF FrameStep
  <2>2. Plan' = Plan /\ \A i \in Items : NewObject.rec[i] = "absent"
    BY <2>1, SamePlan DEF NewObject
  <2>. QED BY <2>1, <2>2 DEF RecInv
<1>3. CASE ItemSteps
  <2>1. Writes /\ UNCHANGED <<spec, stored>> /\ Busy
    BY <1>3, Outcome DEF apiVars
  <2>2. Plan' = Plan /\ Plan[at] \in Range(Plan)
    <3>1. spec \in Specs /\ at \in 1..Len(Plan)
      BY <2>1 DEF TypeInv, PlaceInv, TypeOK, ApiTypeOK
    <3>. QED BY <2>1, <3>1, SamePlan, PlanFacts DEF Range
  <2>. QED BY <2>1, <2>2 DEF RecInv, Writes
<1>. QED BY <1>1, <1>2, <1>3, NextSteps

----------------------------------------------------------------------------
(* What the load balancers are created on.                                 *)

\* When a load balancer is created, everything before the load balancers is there.
LEMMA BeforeLBs ==
    ASSUME TypeInv, PassedInv, Busy, Kind = "lb", NEW k \in 1..Len(Plan),
           Plan[k][1] \in {"control", "worker", "group"}
    PROVE  /\ local.rec[Plan[k]] = "available" /\ cloud[Plan[k][2]] = "available" /\ Plan[k] \in Items
<1>1. spec \in Specs /\ at \in 1..Len(Plan) /\ Plan = PlanOf(spec)
  BY DEF TypeInv, PlaceInv, TypeOK, ApiTypeOK, Plan, Plans
<1>2. k < at
  BY <1>1, PlanOfFacts DEF Kind
<1>3. Passed(k)
  BY <1>2 DEF PassedInv
<1>4. StageOf(Plan[k][1]) # StageOf(Kind) /\ Plan[k] # Plan[at]
  BY DEF StageOf, Kind
<1>5. Settled(local.rec, cloud, Plan[k])
  BY <1>3, <1>4 DEF Passed
<1>6. Plan[k] \in Items
  BY <1>1, PlanFacts DEF IsItem
<1>. QED BY <1>5, <1>6 DEF Settled, Exempt, IsThing

\* So it is created on all that it asks for.
LEMMA CreatedOnAll ==
    ASSUME TypeInv, CloudInv, PassedInv, RecInv, Busy, Kind = "lb"
    PROVE  LET all == GetLoadBalancerSubnetIDs \cup GetLoadBalancerSecurityGroupIDs
           IN /\ all = spec.lbGroups \cup (IF spec.lbSubnets # {} THEN spec.lbSubnets
                                           ELSE Range(ControlPlaneSubnets(spec)))
              /\ \A t \in all : cloud[t] = "available"
<1>1. spec \in Specs /\ Plan = PlanOf(spec) /\ DOMAIN Plan = 1..Len(Plan)
  BY PlanFacts DEF TypeInv, TypeOK, ApiTypeOK, Plan, Plans
<1>2. /\ \A k \in 1..Len(Plan) : Plan[k][1] = "control" => Plan[k][2] \in Range(ControlPlaneSubnets(spec))
      /\ \A x \in Range(ControlPlaneSubnets(spec)) : \E k \in 1..Len(Plan) : Plan[k] = <<"control", x>>
      /\ \A x \in Range(WorkerSubnets(spec)) : \E k \in 1..Len(Plan) : Plan[k] = <<"worker", x>>
      /\ \A x \in Range(spec.groups) : \E k \in 1..Len(Plan) : Plan[k] = <<"group", x>>
  BY <1>1, PlanOfFacts
<1>3. /\ spec.lbGroups \subseteq Range(spec.groups) \cup spec.existing /\ Range(ControlPlaneSubnets(spec)) \subseteq Subnets
      /\ spec.lbSubnets \subseteq Range(ControlPlaneSubnets(spec)) \cup Range(WorkerSubnets(spec)) \cup spec.existing
  <2>1. ControlPlaneSubnets(spec) \in Seq(Subnets)
    BY <1>1, SubnetsOfFacts
  <2>2. Range(ControlPlaneSubnets(spec)) \subseteq Subnets
    BY <2>1 DEF Range
  <2>. QED BY <1>1, <2>2, SpecAssumption DEF SpecType
<1>4. ASSUME NEW x \in Range(ControlPlaneSubnets(spec))
      PROVE  /\ <<"control", x>> \in Items /\ local.rec[<<"control", x>>] = "available" /\ cloud[x] = "available"
  <2>1. PICK k \in 1..Len(Plan) : Plan[k] = <<"control", x>>
    BY <1>2
  <2>2. Plan[k][1] = "control" /\ Plan[k][2] = x
    BY <2>1
  <2>. QED BY <2>1, <2>2, BeforeLBs
<1>5. ASSUME NEW x \in Range(WorkerSubnets(spec)) PROVE cloud[x] = "available"
  <2>1. PICK k \in 1..Len(Plan) : Plan[k] = <<"worker", x>>
    BY <1>2
  <2>2. Plan[k][1] = "worker" /\ Plan[k][2] = x
    BY <2>1
  <2>. QED BY <2>1, <2>2, BeforeLBs
<1>6. ASSUME NEW x \in Range(spec.groups) PROVE cloud[x] = "available"
  <2>1. PICK k \in 1..Len(Plan) : Plan[k] = <<"group", x>>
    BY <1>2
  <2>2. Plan[k][1] = "group" /\ Plan[k][2] = x
    BY <2>1
  <2>. QED BY <2>1, <2>2, BeforeLBs
<1>7. GetLoadBalancerSecurityGroupIDs = spec.lbGroups
  BY <1>3, <1>6 DEF GetLoadBalancerSecurityGroupIDs, CloudInv
<1>8. ASSUME NEW x \in Subnets, <<"control", x>> \in Items, local.rec[<<"control", x>>] # "absent"
      PROVE  x \in Range(ControlPlaneSubnets(spec))
  <2>1. <<"control", x>> \in Range(Plan)
    BY <1>8 DEF RecInv
  <2>2. PICK k \in 1..Len(Plan) : Plan[k] = <<"control", x>>
    BY <1>1, <2>1 DEF Range
  <2>3. Plan[k][1] = "control" /\ Plan[k][2] = x
    BY <2>2
  <2>. QED BY <1>2, <2>3
<1>9. GetLoadBalancerSubnetIDs = IF spec.lbSubnets # {} THEN spec.lbSubnets ELSE Range(ControlPlaneSubnets(spec))
  <2>1. CASE spec.lbSubnets = {}
    <3>1. ASSUME NEW x PROVE x \in GetLoadBalancerSubnetIDs <=> x \in Range(ControlPlaneSubnets(spec))
      BY <1>3, <1>4, <1>8, <2>1 DEF GetLoadBalancerSubnetIDs
    <3>. QED BY <2>1, <3>1
  <2>2. CASE spec.lbSubnets # {}
    BY <2>2 DEF GetLoadBalancerSubnetIDs
  <2>. QED BY <2>1, <2>2
<1>10. \A t \in spec.lbGroups \cup spec.lbSubnets \cup Range(ControlPlaneSubnets(spec)) : cloud[t] = "available"
  BY <1>3, <1>4, <1>5, <1>6 DEF CloudInv
<1>. QED BY <1>7, <1>9, <1>10

\* What the load balancer lb spans.
Spans(lb) ==
    /\ on[lb] = spec.lbGroups \cup (IF spec.lbSubnets # {} THEN spec.lbSubnets
                                    ELSE Range(ControlPlaneSubnets(spec)))
    /\ \A t \in on[lb] : cloud[t] = "available"

LEMMA SpansStays ==
    ASSUME TypeInv, NEW lb \in LBs, Spans(lb), on'[lb] = on[lb], spec' = spec,
           \A t \in Things : cloud[t] = "available" => cloud'[t] = "available"
    PROVE  Spans(lb)'
<1>1. on[lb] \subseteq Things
  BY DEF TypeInv, TypeOK, CloudTypeOK, Things
<1>2. \A t \in on'[lb] : cloud'[t] = "available"
  BY <1>1 DEF Spans
<1>3. ControlPlaneSubnets(spec)' = ControlPlaneSubnets(spec)
  BY DEF ControlPlaneSubnets, SubnetsOf
<1>. QED BY <1>2, <1>3 DEF Spans

LEMMA InitSpans == Init => SpansControlPlane
<1>1. LBs \subseteq Things
  BY DEF Things
<1>. QED BY <1>1 DEF Init, SpansControlPlane

LEMMA NextSpans ==
    ASSUME TypeInv, CloudInv, PassedInv, RecInv, SpansControlPlane, [Next]_vars
    PROVE  SpansControlPlane'
<1>0. /\ cloud \in [Things -> States] /\ on \in [LBs -> SUBSET (Subnets \cup Groups)] /\ LBs \subseteq Things
      /\ TagInv /\ spec \in Specs
  BY DEF TypeInv, TypeOK, ApiTypeOK, CloudTypeOK, Things, CloudInv
<1>1. spec' = spec
  BY QuietSteps, FrameSteps, Outcome, NextSteps, <1>0 DEF QuietStep, FrameStep, apiVars
<1>2. SUFFICES ASSUME NEW lb \in LBs, cloud'[lb] # "absent", lb \notin spec.existing PROVE Spans(lb)'
  BY <1>1 DEF SpansControlPlane, Spans
<1>3. cloud[lb] # "absent" => Spans(lb)
  BY <1>2 DEF SpansControlPlane, Spans
<1>4. CASE QuietStep
  <2>1. /\ on' = on
        /\ \A t \in Things : cloud'[t] = cloud[t] \/ (cloud[t] = "pending" /\ cloud'[t] = "available")
    BY <1>4, QuietSteps DEF QuietStep
  <2>2. cloud[lb] # "absent"
    BY <1>0, <1>2, <2>1
  <2>. QED BY <1>1, <1>3, <2>1, <2>2, SpansStays
<1>5. CASE FrameStep
  <2>1. on' = on /\ cloud' = cloud
    BY <1>5, FrameSteps DEF FrameStep
  <2>. QED BY <1>1, <1>2, <1>3, <2>1, SpansStays
<1>6. CASE ItemSteps
  <2>1. UNCHANGED <<cloud, home, on>> \/ Gated \/ Made
    BY <1>0, <1>6, MakingOutcome
  <2>2. \A t \in Things : cloud[t] = "available" => cloud'[t] = "available"
    BY <1>6, ThingsGrow
  <2>3. Busy
    BY <1>0, <1>6, Outcome
  <2>4. CASE Made /\ Kind = "lb" /\ Name = lb
    <3>1. on'[lb] = GetLoadBalancerSubnetIDs \cup GetLoadBalancerSecurityGroupIDs
      BY <1>0, <2>4 DEF Made
    <3>2. /\ on'[lb] = spec.lbGroups \cup (IF spec.lbSubnets # {} THEN spec.lbSubnets
                                           ELSE Range(ControlPlaneSubnets(spec)))
          /\ \A t \in on'[lb] : cloud[t] = "available"
      BY <2>3, <2>4, <3>1, CreatedOnAll
    <3>3. on'[lb] \subseteq Things
      <4>1. on' \in [LBs -> SUBSET (Subnets \cup Groups)]
        BY <1>0, <1>6, ItemsSafe DEF CloudSafe
      <4>. QED BY <4>1 DEF Things
    <3>4. \A t \in on'[lb] : cloud'[t] = "available"
      BY <2>2, <3>2, <3>3
    <3>5. ControlPlaneSubnets(spec)' = ControlPlaneSubnets(spec)
      BY <1>1 DEF ControlPlaneSubnets, SubnetsOf
    <3>. QED BY <1>1, <3>2, <3>4, <3>5 DEF Spans
  <2>5. CASE ~(Made /\ Kind = "lb" /\ Name = lb)
    <3>1. cloud'[lb] = cloud[lb] /\ on'[lb] = on[lb]
      <4>1. CASE UNCHANGED <<cloud, home, on>>
        BY <4>1
      <4>2. CASE Gated
        <5>1. Kind \in {"control", "worker"}
          BY <4>2 DEF Gated, TypeInv, PlaceInv, Subnetwork
        <5>2. Zone[Name] # lb
          BY <2>3, <5>1, NamesApart, NetworkAssumption
        <5>. QED BY <1>0, <4>2, <5>2 DEF Gated, Created
      <4>3. CASE Made
        <5>1. at \in 1..Len(Plan)
          BY <2>3 DEF TypeInv, PlaceInv
        <5>2. Name # lb
          BY <1>0, <2>5, <4>3, <5>1, ItemFacts, NetworkAssumption DEF Made
        <5>. QED BY <1>0, <4>3, <5>2 DEF Made, Created
      <4>. QED BY <2>1, <4>1, <4>2, <4>3
    <3>. QED BY <1>1, <1>2, <1>3, <2>2, <3>1, SpansStays
  <2>. QED BY <2>4, <2>5
<1>. QED BY <1>4, <1>5, <1>6, NextSteps

\* A load balancer is created on every subnet and group it asks for, each of them
\* available (CreateLoadBalancer), although getLoadBalancerSubnetIDs reads a status
\* that failed reconciles left behind.
THEOREM LoadBalancersSpanTheirSubnets == Spec => []SpansControlPlane
<1>1. Init => PassedInv /\ RecInv /\ SpansControlPlane
  BY InitPassed, InitRec, InitSpans
<1>2. TypeInv /\ CloudInv /\ PassedInv /\ RecInv /\ SpansControlPlane /\ [Next]_vars
      => (PassedInv /\ RecInv /\ SpansControlPlane)'
  <2>1. SUFFICES ASSUME TypeInv, CloudInv, PassedInv, RecInv, SpansControlPlane, [Next]_vars
                 PROVE PassedInv' /\ RecInv' /\ SpansControlPlane'
    OBVIOUS
  <2>2. PassedInv'
    BY <2>1, NextSteps, ItemsPassed, QuietPassed, FramePassed
  <2>3. RecInv'
    BY <2>1, NextRec DEF CloudInv
  <2>4. SpansControlPlane'
    BY <2>1, NextSpans
  <2>. QED BY <2>2, <2>3, <2>4
<1>. QED BY <1>1, <1>2, Basics, PTL DEF Spec

----------------------------------------------------------------------------
(* Ready.                                                                  *)

\* An object that is ready in memory only is about to be persisted, with all of the
\* plan settled; and an endpoint is that of an available load balancer.
ReadyInv ==
    /\ local.ready /\ ~stored.ready =>
         pc = "patch" /\ \A k \in 1..Len(Plan) : Settled(local.rec, cloud, Plan[k])
    /\ local.host # "none" => cloud[local.host] = "available"
    /\ stored.host # "none" => cloud[stored.host] = "available"

LEMMA HostTypes ==
    ASSUME TypeInv
    PROVE  /\ local.host # "none" => local.host \in Things
           /\ stored.host # "none" => stored.host \in Things
BY DEF TypeInv, TypeOK, ApiTypeOK, ControllerTypeOK, ObjectType, Things

LEMMA InitReady == Init => ReadyInv
BY DEF Init, ReadyInv, NewObject

\* The object that is patched.
LEMMA PatchedFacts ==
    ASSUME TypeInv, Patch
    PROVE  /\ (stored'.ready = local.ready /\ stored'.rec = local.rec) \/ (stored'.ready = stored.ready)
           /\ stored'.host \in {stored.host, local.host}
           /\ local' = NewObject /\ pc = "patch" /\ pc' = "idle"
<1>1. PICK parts \in SUBSET PatchParts : stored' = Patched(parts)
  BY DEF Patch
<1>2. /\ (stored'.ready = local.ready /\ stored'.rec = local.rec) \/ (stored'.ready = stored.ready)
      /\ stored'.host \in {stored.host, local.host}
  BY <1>1 DEF Patched
<1>. QED BY <1>2 DEF Patch, Forget

LEMMA NextReady ==
    ASSUME TypeInv, CloudInv, PassedInv, ReadyInv, [Next]_vars
    PROVE  ReadyInv'
<1>0. TagInv /\ spec \in Specs /\ local.ready \in BOOLEAN /\ stored.ready \in BOOLEAN
  BY DEF CloudInv, TypeInv, TypeOK, ApiTypeOK, ControllerTypeOK, ObjectType
<1>1. /\ local.host # "none" => local.host \in Things
      /\ stored.host # "none" => stored.host \in Things
  BY HostTypes
<1>2. CASE QuietStep
  <2>1. /\ UNCHANGED <<spec, local, pc>> /\ stored'.ready = stored.ready /\ stored'.host = stored.host
        /\ \A t \in Things : cloud[t] = "available" => cloud'[t] = "available"
    BY <1>2, QuietSteps DEF QuietStep, Alike
  <2>2. Plan' = Plan
    BY <2>1, SamePlan
  <2>3. ASSUME NEW k \in 1..Len(Plan), Settled(local.rec, cloud, Plan[k])
        PROVE  Settled(local.rec, cloud, Plan[k])'
    <3>1. Settled(local.rec, cloud', Plan[k])
      BY <1>0, <2>1, <2>3, SettledStays
    <3>. QED BY <2>1, <2>2, <3>1 DEF Settled, Exempt
  <2>. QED BY <1>1, <2>1, <2>2, <2>3 DEF ReadyInv
<1>3. CASE ItemSteps
  <2>1. Writes /\ UNCHANGED <<spec, stored>> /\ Busy
    BY <1>0, <1>3, Outcome DEF apiVars
  <2>2. local'.ready = local.ready /\ local'.host = local.host
    BY <2>1 DEF Writes
  <2>3. \A t \in Things : cloud[t] = "available" => cloud'[t] = "available"
    BY <1>3, ThingsGrow
  <2>4. ~(local.ready /\ ~stored.ready)
    BY <2>1 DEF ReadyInv, Busy
  <2>. QED BY <1>1, <2>1, <2>2, <2>3, <2>4 DEF ReadyInv
<1>4. CASE FrameStep
  <2>1. UNCHANGED <<spec, cloud>> /\ Plan' = Plan
    BY <1>4, FrameSteps, SamePlan DEF FrameStep
  <2>2. CASE StartReconcile
    BY <2>1, <2>2 DEF StartReconcile, apiVars, ReadyInv
  <2>3. CASE ReconcileDeleteV2
    <3>1. local'.ready = stored.ready /\ local'.host = stored.host /\ stored' = stored
      BY <2>3, ObjectUpdates DEF ReconcileDeleteV2, apiVars, TypeInv, TypeOK, ApiTypeOK, Alike
    <3>. QED BY <2>1, <3>1 DEF ReadyInv
  <2>4. CASE Patch
    <3>1. stored'.host \in {stored.host, local.host} /\ local' = NewObject
      BY <2>4, PatchedFacts
    <3>2. NewObject.ready = FALSE /\ NewObject.host = "none"
      BY DEF NewObject
    <3>. QED BY <2>1, <3>1, <3>2 DEF ReadyInv
  <2>5. CASE Crash
    BY <2>1, <2>5 DEF Crash, Forget, apiVars, NewObject, ReadyInv
  <2>6. CASE MarkReady
    <3>1. pc = "host" /\ pc' = "patch" /\ stored' = stored
      BY <2>6 DEF MarkReady, apiVars
    <3>2. ~(local.ready /\ ~stored.ready)
      BY <3>1 DEF ReadyInv
    <3>3. CASE UNCHANGED local
      BY <2>1, <3>1, <3>2, <3>3 DEF ReadyInv
    <3>4. ASSUME NEW i \in DOMAIN LoadBalancers, local' = [local EXCEPT !.host = LoadBalancers[i], !.ready = TRUE]
          PROVE  ReadyInv'
      <4>1. local'.host = LoadBalancers[i] /\ local'.rec = local.rec
        BY <3>4 DEF TypeInv, TypeOK, ControllerTypeOK, ObjectType
      <4>2. LoadBalancers[i] \in LBs
        BY DEF LBs, Range
      <4>3. \A k \in 1..Len(Plan) : Settled(local.rec, cloud, Plan[k])
        BY <3>1 DEF PassedInv
      <4>4. PICK k \in 1..Len(Plan) : Plan[k] = <<"lb", LoadBalancers[i]>>
        BY <1>0, <4>2, PlanOfFacts DEF Plan, Plans
      <4>5. Plan[k][1] = "lb" /\ Plan[k][2] = LoadBalancers[i]
        BY <4>4
      <4>6. cloud[LoadBalancers[i]] = "available"
        BY <4>3, <4>5 DEF Settled, IsThing
      <4>7. ASSUME NEW j \in 1..Len(Plan) PROVE Settled(local.rec, cloud, Plan[j])'
        BY <2>1, <4>1, <4>3 DEF Settled, Exempt
      <4>. QED BY <2>1, <3>1, <4>1, <4>6, <4>7 DEF ReadyInv
    <3>. QED BY <2>6, <3>3, <3>4 DEF MarkReady
  <2>. QED BY <1>4, <2>2, <2>3, <2>4, <2>5, <2>6 DEF FrameStep
<1>. QED BY <1>2, <1>3, <1>4, NextSteps

\* Becoming ready, in one step.
BecomesComplete ==
    ~stored.ready /\ stored'.ready =>
        /\ \A i \in Range(Plan) : i[1] # "rules" /\ (i[1] \in Kinds => Ref[i[1]] # "none")
                                  => stored'.rec[i] = "available"
        /\ stored'.host # "none" => cloud[stored'.host] = "available"

LEMMA ReadyStep ==
    ASSUME TypeInv, CloudInv, ReadyInv, [Next]_vars
    PROVE  BecomesComplete
<1>0. TagInv /\ spec \in Specs
  BY DEF CloudInv, TypeInv, TypeOK, ApiTypeOK
<1>1. SUFFICES ASSUME ~stored.ready, stored'.ready
               PROVE  /\ \A i \in Range(Plan) : i[1] # "rules" /\ (i[1] \in Kinds => Ref[i[1]] # "none")
                                                => stored'.rec[i] = "available"
                      /\ stored'.host # "none" => cloud[stored'.host] = "available"
  BY DEF BecomesComplete
<1>2. Patch
  <2>1. ~QuietStep
    BY <1>1, QuietSteps DEF QuietStep, Alike
  <2>2. ~ItemSteps
    BY <1>0, <1>1, Outcome DEF apiVars
  <2>3. ~(StartReconcile \/ ReconcileDeleteV2 \/ MarkReady \/ Crash)
    BY <1>1 DEF StartReconcile, ReconcileDeleteV2, MarkReady, Crash, apiVars
  <2>. QED BY <2>1, <2>2, <2>3, NextSteps DEF FrameStep
<1>3. stored'.ready = local.ready /\ stored'.rec = local.rec /\ stored'.host \in {stored.host, local.host}
  BY <1>1, <1>2, PatchedFacts
<1>4. \A k \in 1..Len(Plan) : Settled(local.rec, cloud, Plan[k])
  BY <1>1, <1>3 DEF ReadyInv
<1>5. ASSUME NEW i \in Range(Plan), i[1] # "rules", i[1] \in Kinds => Ref[i[1]] # "none"
      PROVE  local.rec[i] = "available"
  <2>1. PICK k \in 1..Len(Plan) : Plan[k] = i
    BY <1>0, PlanFacts DEF Range
  <2>2. Settled(local.rec, cloud, i)
    BY <1>4, <2>1
  <2>3. ~Exempt(i)
    BY <1>5 DEF Exempt, Kinds, Ref
  <2>. QED BY <2>2, <2>3 DEF Settled
<1>6. stored'.host # "none" => cloud[stored'.host] = "available"
  BY <1>3 DEF ReadyInv
<1>. QED BY <1>3, <1>5, <1>6

\* A cluster becomes ready with all of it recorded as available, at the endpoint of
\* a load balancer that is (reconcileCluster sets Ready after the last stage,
\* whatever part of patchIBMVPCCluster fails).
THEOREM ReadyClustersAreComplete == Spec => ReadyIsComplete
<1>1. Init => PassedInv /\ ReadyInv
  BY InitPassed, InitReady
<1>2. TypeInv /\ CloudInv /\ PassedInv /\ ReadyInv /\ [Next]_vars => (PassedInv /\ ReadyInv)'
  <2>1. SUFFICES ASSUME TypeInv, CloudInv, PassedInv, ReadyInv, [Next]_vars PROVE PassedInv' /\ ReadyInv'
    OBVIOUS
  <2>2. PassedInv'
    BY <2>1, NextSteps, ItemsPassed, QuietPassed, FramePassed
  <2>. QED BY <2>1, <2>2, NextReady
<1>3. TypeInv /\ CloudInv /\ ReadyInv /\ [Next]_vars => [BecomesComplete]_vars
  BY ReadyStep
<1>4. Spec => [][BecomesComplete]_vars
  BY <1>1, <1>2, <1>3, Basics, PTL DEF Spec
<1>. QED BY <1>4 DEF ReadyIsComplete, BecomesComplete
=============================================================================
