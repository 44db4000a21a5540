--------------------- MODULE VPCSecurityGroupRulesProofs ---------------------
(***************************************************************************)
(* Proofs about VPCSecurityGroupRules, for every set of lists of rules,    *)
(* any size of a group and any failures.                                   *)
(***************************************************************************)
EXTENDS VPCSecurityGroupRules, TLAPS

----------------------------------------------------------------------------
(* Rules and what is created from them.                                    *)

GoodRule(r) == r \in RuleType /\ IsRule(r)

\* The rules and the remotes of a spec are well formed.
LEMMA RulesAreGood ==
    ASSUME TypeOK
    PROVE  /\ rules \in Seq(RuleType)
           /\ \A i \in DOMAIN rules :
                 /\ GoodRule(rules[i])
                 /\ rules[i].remotes \in Seq(RemoteType)
                 /\ \A m \in DOMAIN rules[i].remotes : rules[i].remotes[m] \in RemoteType
<1>1. rules \in Seq(RuleType) /\ \A i \in DOMAIN rules : IsRule(rules[i])
  BY RulesAssumption DEF TypeOK
<1>2. ASSUME NEW i \in DOMAIN rules PROVE rules[i] \in RuleType
  BY <1>1
<1>3. ASSUME NEW i \in DOMAIN rules PROVE rules[i].remotes \in Seq(RemoteType)
  BY <1>2 DEF RuleType, RemoteType
<1>4. ASSUME NEW i \in DOMAIN rules, NEW m \in DOMAIN rules[i].remotes
      PROVE  rules[i].remotes[m] \in RemoteType
  BY <1>3
<1>. QED BY <1>1, <1>2, <1>3, <1>4 DEF GoodRule

\* What a remote names by its type.
LEMMA RemoteNames ==
    ASSUME NEW m \in RemoteType
    PROVE  /\ m[1] \in {"any", "cidr", "address", "sg"}
           /\ m[1] = "cidr" => CIDR[m[2]] \in Names
           /\ m[1] \in {"address", "sg"} => m[2] \in Names
           /\ Nil \notin Names
BY NamesAssumption DEF RemoteType

\* Setting a field of the empty remote.
LEMMA RemoteUpdates ==
    ASSUME NEW v
    PROVE  /\ [NoRemote EXCEPT !.address = v] = [address |-> v, cidr |-> Nil, sg |-> Nil]
           /\ [NoRemote EXCEPT !.cidr = v] = [address |-> Nil, cidr |-> v, sg |-> Nil]
           /\ [NoRemote EXCEPT !.sg = v] = [address |-> Nil, cidr |-> Nil, sg |-> v]
BY DEF NoRemote

\* createSecurityGroupRuleRemote sets one field.
LEMMA CreatedRemoteFields ==
    ASSUME NEW m \in RemoteType
    PROVE  /\ CreatedRemote(m) \in ExistingRemoteType
           /\ CreatedRemote(m).address = IF m[1] = "address" THEN m[2] ELSE Nil
           /\ CreatedRemote(m).cidr = IF m[1] = "any" THEN CIDRBlockAny
                                      ELSE IF m[1] = "cidr" THEN CIDR[m[2]] ELSE Nil
           /\ CreatedRemote(m).sg = IF m[1] = "sg" THEN m[2] ELSE Nil
<1>1. CASE m[1] = "any"
  <2>1. CreatedRemote(m) = [address |-> Nil, cidr |-> CIDRBlockAny, sg |-> Nil]
    BY <1>1, RemoteUpdates DEF CreatedRemote
  <2>. QED BY <1>1, <2>1 DEF ExistingRemoteType
<1>2. CASE m[1] = "cidr"
  <2>1. CreatedRemote(m) = [address |-> Nil, cidr |-> CIDR[m[2]], sg |-> Nil]
    BY <1>2, RemoteUpdates DEF CreatedRemote
  <2>. QED BY <1>2, <2>1, RemoteNames DEF ExistingRemoteType
<1>3. CASE m[1] = "address"
  <2>1. CreatedRemote(m) = [address |-> m[2], cidr |-> Nil, sg |-> Nil]
    BY <1>3, RemoteUpdates DEF CreatedRemote
  <2>. QED BY <1>3, <2>1, RemoteNames DEF ExistingRemoteType
<1>4. CASE m[1] = "sg"
  <2>1. CreatedRemote(m) = [address |-> Nil, cidr |-> Nil, sg |-> m[2]]
    BY <1>4, RemoteUpdates DEF CreatedRemote
  <2>. QED BY <1>4, <2>1, RemoteNames DEF ExistingRemoteType
<1>. QED BY <1>1, <1>2, <1>3, <1>4, RemoteNames

\* A remote that is not any matches what is created from it alone.
LEMMA RemoteMatchesItsOwn ==
    ASSUME NEW m \in RemoteType, NEW n \in RemoteType, m[1] # "any",
           RemoteMatches(m, CreatedRemote(n))
    PROVE  CreatedRemote(n) = CreatedRemote(m)
<1>. DEFINE c == CreatedRemote(m)
            d == CreatedRemote(n)
<1>1. c \in ExistingRemoteType /\ d \in ExistingRemoteType
  BY CreatedRemoteFields
<1>2. c.address = d.address /\ c.cidr = d.cidr /\ c.sg = d.sg
  BY RemoteNames, CreatedRemoteFields DEF RemoteMatches
<1>. HIDE DEF c, d
<1>3. c = d
  BY <1>1, <1>2 DEF ExistingRemoteType
<1>. QED BY <1>3 DEF c, d

\* What is created from a remote matches it.
LEMMA OwnRemoteMatches ==
    ASSUME NEW m \in RemoteType
    PROVE  RemoteMatches(m, CreatedRemote(m))
BY RemoteNames, CreatedRemoteFields DEF RemoteMatches

\* The fields of a created rule.
LEMMA CreatedRuleFields ==
    ASSUME NEW r, NEW m \in RemoteType, GoodRule(r)
    PROVE  LET e == CreatedRule(r, m) IN
           /\ e \in ExistingType
           /\ e.direction = r.direction /\ e.protocol = Normalized(r.protocol)
           /\ e.ports = r.ports /\ e.icmp = r.icmp /\ e.remote = CreatedRemote(m)
<1>1. r.direction \in Directions /\ r.protocol \in Protocols /\ r.ports \in Nat /\ r.icmp \in Nat
  BY DEF GoodRule, RuleType
<1>2. Normalized(r.protocol) \in Protocols \ {"all"}
  BY <1>1 DEF Normalized, Protocols
<1>3. CreatedRemote(m) \in ExistingRemoteType
  BY CreatedRemoteFields
<1>. QED BY <1>1, <1>2, <1>3 DEF CreatedRule, ExistingType

\* A created rule that matches a rule is the one created from it, unless its
\* remote is any.
LEMMA MatchIsOwn ==
    ASSUME NEW r, NEW m \in RemoteType, NEW q, NEW n \in RemoteType, GoodRule(r), GoodRule(q),
           m[1] # "any", Matches(r, m, CreatedRule(q, n))
    PROVE  CreatedRule(q, n) = CreatedRule(r, m)
<1>. DEFINE e == CreatedRule(q, n)
<1>1. e.remote = CreatedRemote(n) /\ e.ports = q.ports /\ e.icmp = q.icmp
      /\ e.protocol = Normalized(q.protocol) /\ e.direction = q.direction
  BY CreatedRuleFields
<1>2. RemoteMatches(m, e.remote) /\ e.protocol = Normalized(r.protocol)
      /\ e.direction = r.direction
      /\ (r.protocol \in {"tcp", "udp"} => e.ports = r.ports)
      /\ (r.protocol = "icmp" => e.icmp = r.icmp)
  BY DEF Matches, Compared
<1>. HIDE DEF e
<1>3. CreatedRemote(n) = CreatedRemote(m)
  BY <1>1, <1>2, RemoteMatchesItsOwn
<1>4. Normalized(q.protocol) = Normalized(r.protocol) /\ q.direction = r.direction
  BY <1>1, <1>2
<1>5. /\ q.ports # 0 => q.protocol \in {"tcp", "udp"}
      /\ q.icmp # 0 => q.protocol = "icmp"
      /\ r.ports # 0 => r.protocol \in {"tcp", "udp"}
      /\ r.icmp # 0 => r.protocol = "icmp"
  BY DEF GoodRule, IsRule
<1>6. \A p \in {"tcp", "udp", "icmp"} : q.protocol = p <=> r.protocol = p
  BY <1>4 DEF Normalized
<1>7. q.ports = r.ports
  BY <1>1, <1>2, <1>5, <1>6
<1>8. q.icmp = r.icmp
  BY <1>1, <1>2, <1>5, <1>6
<1>. QED BY <1>3, <1>4, <1>7, <1>8 DEF CreatedRule

\* What is created from a rule matches it, unless it has no ports where it could.
LEMMA OwnRuleMatches ==
    ASSUME NEW r, NEW m \in RemoteType, GoodRule(r),
           r.protocol \in {"tcp", "udp"} => r.ports # 0
    PROVE  Matches(r, m, CreatedRule(r, m))
<1>1. RemoteMatches(m, CreatedRemote(m))
  BY OwnRemoteMatches
<1>2. r.protocol \in Protocols
  BY DEF GoodRule, RuleType
<1>. QED BY <1>1, <1>2, CreatedRuleFields DEF Matches, Compared, Normalized

----------------------------------------------------------------------------
(* The inductive invariant.                                                *)

\* Every rule of the group was created from the spec: MadeFromSpec.
MadeFromSpec ==
    \A k \in DOMAIN existing :
       \E i \in DOMAIN rules : \E m \in DOMAIN rules[i].remotes :
          existing[k] = CreatedRule(rules[i], rules[i].remotes[m])

\* A remote the reconcile need not look at again.
Done(i, m) == Stands(i, m) \/ Shadowed(i, m)

\* The remotes gone through are done: those of earlier rules, those before the
\* one the reconcile stands at, and all of them after a full pass.
GoneThrough ==
    \A i \in DOMAIN rules : \A m \in DOMAIN rules[i].remotes :
       \/ passes
       \/ pc # "idle" /\ i < at[1]
       \/ pc = "remote" /\ i = at[1] /\ m < at[2]
       => Done(i, m)

AllHavePorts == \A i \in DOMAIN rules : ~Portless(i)

\* After a full pass the list the reconcile works with is never out of date.
ListedIsFresh == passes /\ AllHavePorts /\ pc = "remote" => listed = existing

RulesInv == TypeOK /\ MadeFromSpec /\ GoneThrough /\ ListedIsFresh

----------------------------------------------------------------------------
(* What steps do to the parts of the invariant.                            *)

\* The fault counter stays within its bound.
LEMMA FaultArithmetic ==
    ASSUME faults \in 0..MaxFaults
    PROVE /\ NoFault => faults' \in 0..MaxFaults
          /\ \A kind : Fault(kind) => faults' \in 0..MaxFaults
BY BoundAssumption DEF NoFault, Fault

\* The reconcile stands at a rule and, when one is left, at a remote of it.
LEMMA StandsAt ==
    ASSUME TypeOK, pc = "remote"
    PROVE  /\ at[1] \in DOMAIN rules /\ at[2] \in Nat /\ at[2] > 0
           /\ Len(Rule.remotes) \in Nat /\ DOMAIN Rule.remotes = 1..Len(Rule.remotes)
           /\ RemoteLeft => at[2] \in DOMAIN Rule.remotes
<1>1. rules \in Seq(RuleType) /\ at[1] \in 1..Len(rules)
  BY RulesAreGood DEF TypeOK
<1>2. at[1] \in DOMAIN rules
  BY <1>1
<1>3. Rule.remotes \in Seq(RemoteType)
  BY <1>2, RulesAreGood DEF Rule
<1>4. at[2] \in 1..(Len(Rule.remotes) + 1)
  BY DEF TypeOK, Rule
<1>. QED BY <1>2, <1>3, <1>4 DEF RemoteLeft

\* What is done stays done when nothing is taken away from the group.
LEMMA DoneStays ==
    ASSUME rules' = rules, DOMAIN existing \subseteq DOMAIN existing',
           \A k \in DOMAIN existing : existing'[k] = existing[k],
           NEW i, NEW m, Done(i, m)
    PROVE  Done(i, m)'
<1>1. CASE Stands(i, m)
  <2>1. PICK k \in DOMAIN existing : existing[k] = CreatedRule(rules[i], rules[i].remotes[m])
    BY <1>1 DEF Stands
  <2>2. existing'[k] = CreatedRule(rules'[i], rules'[i].remotes[m]) /\ k \in DOMAIN existing'
    BY <2>1
  <2>. QED BY <2>2 DEF Done, Stands
<1>2. CASE Shadowed(i, m)
  <2>1. PICK k \in DOMAIN existing :
           /\ existing[k] # CreatedRule(rules[i], rules[i].remotes[m])
           /\ Matches(rules[i], rules[i].remotes[m], existing[k])
    BY <1>2 DEF Shadowed
  <2>2. /\ existing'[k] # CreatedRule(rules'[i], rules'[i].remotes[m]) /\ k \in DOMAIN existing'
        /\ Matches(rules'[i], rules'[i].remotes[m], existing'[k])
        /\ rules'[i].remotes[m][1] = "any"
    BY <1>2, <2>1 DEF Shadowed
  <2>. QED BY <2>2 DEF Done, Shadowed
<1>. QED BY <1>1, <1>2 DEF Done

\* A remote for which an existing rule was found is done.
LEMMA MatchedIsDone ==
    ASSUME TypeOK, MadeFromSpec, RemoteLeft, Matched
    PROVE  Done(at[1], at[2])
<1>1. at[1] \in DOMAIN rules /\ at[2] \in DOMAIN Rule.remotes
  BY StandsAt DEF RemoteLeft
<1>2. PICK k \in DOMAIN listed : Matches(Rule, Remote, listed[k])
  BY DEF Matched
<1>3. k \in DOMAIN existing /\ listed[k] = existing[k]
  BY DEF TypeOK
<1>4. PICK i \in DOMAIN rules : \E m \in DOMAIN rules[i].remotes :
         existing[k] = CreatedRule(rules[i], rules[i].remotes[m])
  BY <1>3 DEF MadeFromSpec
<1>5. PICK m \in DOMAIN rules[i].remotes : existing[k] = CreatedRule(rules[i], rules[i].remotes[m])
  BY <1>4
<1>6. GoodRule(Rule) /\ Remote \in RemoteType /\ GoodRule(rules[i])
      /\ rules[i].remotes[m] \in RemoteType
  BY <1>1, RulesAreGood DEF Rule, Remote
<1>7. CASE existing[k] = CreatedRule(Rule, Remote)
  BY <1>3, <1>7 DEF Done, Stands, Rule, Remote
<1>8. CASE existing[k] # CreatedRule(Rule, Remote)
  <2>1. Remote[1] = "any"
    BY <1>2, <1>3, <1>5, <1>6, <1>8, MatchIsOwn
  <2>. QED BY <1>2, <1>3, <1>8, <2>1 DEF Done, Shadowed, Rule, Remote
<1>. QED BY <1>7, <1>8

\* A remote that is done is found in a fresh list, if the rule has its ports.
LEMMA DoneIsMatched ==
    ASSUME TypeOK, RemoteLeft, ~Portless(at[1]), listed = existing, Done(at[1], at[2])
    PROVE  Matched
<1>1. at[1] \in DOMAIN rules /\ at[2] \in DOMAIN Rule.remotes
  BY StandsAt DEF RemoteLeft
<1>2. GoodRule(Rule) /\ Remote \in RemoteType
  BY <1>1, RulesAreGood DEF Rule, Remote
<1>3. CASE Stands(at[1], at[2])
  <2>1. PICK k \in DOMAIN existing : existing[k] = CreatedRule(Rule, Remote)
    BY <1>3 DEF Stands, Rule, Remote
  <2>2. Matches(Rule, Remote, CreatedRule(Rule, Remote))
    BY <1>2, OwnRuleMatches DEF Portless, Rule
  <2>. QED BY <2>1, <2>2 DEF Matched
<1>4. CASE Shadowed(at[1], at[2])
  BY <1>4 DEF Shadowed, Matched, Rule, Remote
<1>. QED BY <1>3, <1>4 DEF Done

\* After a full pass nothing is created.
LEMMA NothingCreated ==
    ASSUME RulesInv, passes, AllHavePorts
    PROVE  ~(RemoteLeft /\ ~Matched)
<1>. SUFFICES ASSUME RemoteLeft PROVE Matched
  OBVIOUS
<1>1. at[1] \in DOMAIN rules /\ at[2] \in DOMAIN Rule.remotes
  BY StandsAt DEF RulesInv, RemoteLeft
<1>2. Done(at[1], at[2])
  BY <1>1 DEF RulesInv, GoneThrough, Rule
<1>3. listed = existing
  BY DEF RulesInv, ListedIsFresh, RemoteLeft
<1>. QED BY <1>1, <1>2, <1>3, DoneIsMatched DEF RulesInv, AllHavePorts

\* A step that leaves the group alone and goes through no remote.
LEMMA GroupUntouched ==
    ASSUME RulesInv, TypeOK', rules' = rules, existing' = existing, passes' = passes,
           pc' = "idle" \/ (pc' = "remote" /\ pc = "list" /\ at' = <<at[1], 1>> /\ listed' = existing)
    PROVE  RulesInv'
<1>1. MadeFromSpec'
  BY DEF RulesInv, MadeFromSpec
<1>2. GoneThrough'
  <2>. SUFFICES ASSUME NEW i \in DOMAIN rules, NEW m \in DOMAIN rules[i].remotes,
                       \/ passes'
                       \/ pc' # "idle" /\ i < at'[1]
                       \/ pc' = "remote" /\ i = at'[1] /\ m < at'[2]
                PROVE  Done(i, m)'
    BY DEF GoneThrough
  <2>1. m \in Nat \ {0}
    <3>1. rules[i].remotes \in Seq(RemoteType)
      BY RulesAreGood DEF RulesInv
    <3>. QED BY <3>1
  <2>2. passes \/ (pc # "idle" /\ i < at[1])
    BY <2>1
  <2>3. Done(i, m)
    BY <2>2 DEF RulesInv, GoneThrough
  <2>. QED BY <2>3 DEF Done, Stands, Shadowed
<1>3. ListedIsFresh'
  BY DEF ListedIsFresh, RulesInv
<1>. QED BY <1>1, <1>2, <1>3 DEF RulesInv

----------------------------------------------------------------------------
(* The invariant holds.                                                    *)

\* Initially no rule exists and none was gone through.
LEMMA RulesInit == Init => RulesInv
<1>. SUFFICES ASSUME Init PROVE RulesInv
  OBVIOUS
<1>1. TypeOK
  <2>1. <<>> \in Seq(ExistingType) /\ Len(<<>>) = 0 /\ DOMAIN <<>> = {}
    OBVIOUS
  <2>2. <<0, 0>> \in Nat \X Nat /\ 0 \in 0..MaxFaults /\ 0 <= MaxRules
    BY BoundAssumption
  <2>3. existing \in Seq(ExistingType) /\ listed \in Seq(ExistingType)
        /\ Len(listed) <= Len(existing) /\ Len(existing) <= MaxRules
        /\ \A k \in DOMAIN listed : listed[k] = existing[k]
    BY <2>1, <2>2 DEF Init
  <2>. QED BY <2>2, <2>3 DEF Init, TypeOK
<1>2. MadeFromSpec /\ GoneThrough /\ ListedIsFresh
  BY DEF Init, MadeFromSpec, GoneThrough, ListedIsFresh
<1>. QED BY <1>1, <1>2 DEF RulesInv

\* StartReconcile.
LEMMA StartReconcileInv ==
    ASSUME RulesInv, StartReconcile
    PROVE  RulesInv'
<1>0. rules \in Seq(RuleType)
  BY RulesAreGood DEF RulesInv
<1>1. TypeOK'
  BY <1>0 DEF RulesInv, TypeOK, StartReconcile
<1>2. MadeFromSpec'
  BY DEF RulesInv, MadeFromSpec, StartReconcile
<1>3. GoneThrough'
  <2>. SUFFICES ASSUME NEW i \in DOMAIN rules, NEW m \in DOMAIN rules[i].remotes,
                       passes \/ i < 1
                PROVE  Done(i, m)
    BY DEF GoneThrough, StartReconcile, Done, Stands, Shadowed
  <2>1. passes
    BY <1>0
  <2>. QED BY <2>1 DEF RulesInv, GoneThrough
<1>4. ListedIsFresh'
  BY DEF ListedIsFresh, StartReconcile
<1>. QED BY <1>1, <1>2, <1>3, <1>4 DEF RulesInv

\* The reconcile returns from wherever it is.
LEMMA ReturnsInv ==
    ASSUME RulesInv, Returns, rules' = rules, existing' = existing, passes' = passes,
           faults' \in 0..MaxFaults
    PROVE  RulesInv'
<1>1. TypeOK'
  BY DEF RulesInv, TypeOK, Returns
<1>. QED BY <1>1, GroupUntouched DEF Returns

\* ListSecurityGroupRules.
LEMMA ListInv ==
    ASSUME RulesInv, ListSecurityGroupRules
    PROVE  RulesInv'
<1>1. CASE Fault("api") /\ Returns
  <2>1. faults' \in 0..MaxFaults
    BY <1>1, FaultArithmetic DEF RulesInv, TypeOK
  <2>. QED BY <1>1, <2>1, ReturnsInv DEF ListSecurityGroupRules
<1>2. CASE NoFault /\ listed' = existing /\ at' = <<at[1], 1>> /\ pc' = "remote"
  <2>1. at[1] \in DOMAIN rules /\ at[1] \in 1..Len(rules) /\ at[1] \in Nat
    BY RulesAreGood DEF RulesInv, TypeOK, ListSecurityGroupRules
  <2>2. rules[at[1]].remotes \in Seq(RemoteType)
    BY <2>1, RulesAreGood DEF RulesInv
  <2>3. at'[1] = at[1] /\ at'[2] = 1 /\ at' \in Nat \X Nat
    BY <1>2, <2>1
  <2>4. at'[2] \in 1..(Len(rules[at[1]].remotes) + 1)
    BY <2>2, <2>3
  <2>5. TypeOK'
    BY <1>2, <2>1, <2>3, <2>4, FaultArithmetic DEF RulesInv, TypeOK, ListSecurityGroupRules
  <2>. QED BY <1>2, <2>5, GroupUntouched DEF ListSecurityGroupRules
<1>. QED BY <1>1, <1>2 DEF ListSecurityGroupRules

\* The reconcile passes on to the next remote, this one being done.
LEMMA NextRemoteInv ==
    ASSUME RulesInv, TypeOK', RemoteLeft, rules' = rules, passes' = passes, pc' = pc,
           at' = <<at[1], at[2] + 1>>, listed' = listed,
           MadeFromSpec', NEW f, NEW g, f = at[1], g = at[2], Done(f, g)',
           DOMAIN existing \subseteq DOMAIN existing',
           \A k \in DOMAIN existing : existing'[k] = existing[k],
           passes /\ AllHavePorts => existing' = existing
    PROVE  RulesInv'
<1>1. GoneThrough'
  <2>. SUFFICES ASSUME NEW i \in DOMAIN rules, NEW m \in DOMAIN rules[i].remotes,
                       \/ passes
                       \/ i < at[1]
                       \/ i = at[1] /\ m < at[2] + 1
                PROVE  Done(i, m)'
    BY DEF GoneThrough, RemoteLeft
  <2>1. m \in Nat /\ at[2] \in Nat
    <3>1. rules[i].remotes \in Seq(RemoteType)
      BY RulesAreGood DEF RulesInv
    <3>. QED BY <3>1, StandsAt DEF RulesInv, RemoteLeft
  <2>2. CASE i = at[1] /\ m = at[2]
    <3>1. i = f /\ m = g
      BY <2>2
    <3>. QED BY <3>1
  <2>3. CASE ~(i = at[1] /\ m = at[2])
    <3>1. passes \/ i < at[1] \/ (i = at[1] /\ m < at[2])
      BY <2>1, <2>3
    <3>2. Done(i, m)
      BY <3>1 DEF RulesInv, GoneThrough, RemoteLeft
    <3>. QED BY <3>2, DoneStays
  <2>. QED BY <2>2, <2>3
<1>2. ListedIsFresh'
  BY DEF RulesInv, ListedIsFresh, AllHavePorts, Portless
<1>. QED BY <1>1, <1>2 DEF RulesInv

\* RemoteFound.
LEMMA RemoteFoundInv ==
    ASSUME RulesInv, RemoteFound
    PROVE  RulesInv'
<1>1. /\ at[1] \in DOMAIN rules /\ at[2] \in Nat /\ Len(Rule.remotes) \in Nat
      /\ at[2] <= Len(Rule.remotes) /\ at[2] > 0 /\ at[1] \in 1..Len(rules) /\ at[1] \in Nat
  BY StandsAt DEF RulesInv, TypeOK, RemoteFound, RemoteLeft
<1>2. TypeOK'
  BY <1>1 DEF RulesInv, TypeOK, RemoteFound, Rule
<1>3. Done(at[1], at[2])
  BY MatchedIsDone DEF RulesInv, RemoteFound
<1>4. PICK f, g : f = at[1] /\ g = at[2]
  OBVIOUS
<1>5. Done(f, g)'
  BY <1>3, <1>4, DoneStays DEF RemoteFound
<1>6. MadeFromSpec'
  BY DEF RulesInv, MadeFromSpec, RemoteFound
<1>. QED BY <1>2, <1>4, <1>5, <1>6, NextRemoteInv DEF RemoteFound

\* Appending a rule created from the spec.
LEMMA AppendedRule ==
    ASSUME TypeOK, MadeFromSpec, RemoteLeft, rules' = rules,
           existing' = Append(existing, CreatedRule(Rule, Remote))
    PROVE  /\ existing' \in Seq(ExistingType) /\ Len(existing') = Len(existing) + 1
           /\ DOMAIN existing \subseteq DOMAIN existing'
           /\ \A k \in DOMAIN existing : existing'[k] = existing[k]
           /\ \E k \in DOMAIN existing' : existing'[k] = CreatedRule(Rule, Remote)
           /\ MadeFromSpec'
<1>1. at[1] \in DOMAIN rules /\ at[2] \in DOMAIN Rule.remotes
  BY StandsAt DEF RemoteLeft
<1>2. CreatedRule(Rule, Remote) \in ExistingType
  <2>1. GoodRule(Rule) /\ Remote \in RemoteType
    BY <1>1, RulesAreGood DEF Rule, Remote
  <2>. QED BY <2>1, CreatedRuleFields
<1>. DEFINE c == CreatedRule(Rule, Remote)
<1>. HIDE DEF c
<1>3. existing \in Seq(ExistingType) /\ c \in ExistingType /\ existing' = Append(existing, c)
  BY <1>2 DEF TypeOK, c
<1>4. /\ existing' \in Seq(ExistingType) /\ Len(existing') = Len(existing) + 1
      /\ DOMAIN existing' = DOMAIN existing \cup {Len(existing) + 1}
      /\ \A k \in DOMAIN existing : existing'[k] = existing[k]
      /\ existing'[Len(existing) + 1] = c
  BY <1>3
<1>5. MadeFromSpec'
  <2>. SUFFICES ASSUME NEW k \in DOMAIN existing'
                PROVE  \E i \in DOMAIN rules : \E m \in DOMAIN rules[i].remotes :
                          existing'[k] = CreatedRule(rules[i], rules[i].remotes[m])
    BY DEF MadeFromSpec
  <2>1. CASE k \in DOMAIN existing
    BY <1>4, <2>1 DEF MadeFromSpec
  <2>2. CASE k = Len(existing) + 1
    BY <1>1, <1>4, <2>2 DEF c, Rule, Remote
  <2>. QED BY <1>4, <2>1, <2>2
<1>. QED BY <1>4, <1>5 DEF c

\* CreateSecurityGroupRule.
LEMMA CreateInv ==
    ASSUME RulesInv, CreateSecurityGroupRule
    PROVE  RulesInv'
<1>. USE DEF RulesInv
<1>1. TypeOK /\ RemoteLeft /\ ~Matched /\ rules' = rules /\ passes' = passes
      /\ faults \in 0..MaxFaults
  BY DEF CreateSecurityGroupRule, TypeOK
<1>2. CASE /\ Fault("api") \/ (Len(existing) = MaxRules /\ NoFault)
           /\ Returns /\ UNCHANGED existing
  <2>1. faults' \in 0..MaxFaults
    BY <1>1, <1>2, FaultArithmetic
  <2>. QED BY <1>1, <1>2, <2>1, ReturnsInv
<1>3. CASE /\ Len(existing) < MaxRules
           /\ existing' = Append(existing, CreatedRule(Rule, Remote))
           /\ \/ Fault("lost") /\ Returns
              \/ NoFault /\ at' = <<at[1], at[2] + 1>> /\ UNCHANGED <<listed, pc>>
  <2>1. /\ existing' \in Seq(ExistingType) /\ Len(existing') = Len(existing) + 1
        /\ DOMAIN existing \subseteq DOMAIN existing'
        /\ \A k \in DOMAIN existing : existing'[k] = existing[k]
        /\ \E k \in DOMAIN existing' : existing'[k] = CreatedRule(Rule, Remote)
        /\ MadeFromSpec'
    BY <1>1, <1>3, AppendedRule
  <2>2. Len(existing') <= MaxRules /\ Len(existing) \in Nat
    BY <1>1, <1>3, <2>1, BoundAssumption DEF TypeOK
  <2>3. faults' \in 0..MaxFaults
    BY <1>1, <1>3, FaultArithmetic
  <2>4. ~(passes /\ AllHavePorts)
    BY <1>1, NothingCreated
  <2>5. /\ at[1] \in DOMAIN rules /\ at[2] \in Nat /\ Len(Rule.remotes) \in Nat
        /\ at[2] <= Len(Rule.remotes) /\ at[2] > 0 /\ at[1] \in 1..Len(rules) /\ at[1] \in Nat
    BY <1>1, StandsAt DEF TypeOK, RemoteLeft
  <2>6. CASE Fault("lost") /\ Returns
    <3>1. TypeOK'
      BY <1>1, <2>1, <2>2, <2>3, <2>6 DEF TypeOK, Returns
    <3>2. GoneThrough'
      <4>. SUFFICES ASSUME NEW i \in DOMAIN rules, NEW m \in DOMAIN rules[i].remotes, passes
                    PROVE  Done(i, m)'
        BY <1>1, <2>6 DEF GoneThrough, Returns
      <4>1. Done(i, m)
        BY DEF GoneThrough
      <4>. QED BY <1>1, <2>1, <4>1, DoneStays
    <3>3. ListedIsFresh'
      BY <2>6 DEF ListedIsFresh, Returns
    <3>. QED BY <2>1, <3>1, <3>2, <3>3
  <2>7. CASE NoFault /\ at' = <<at[1], at[2] + 1>> /\ UNCHANGED <<listed, pc>>
    <3>1. /\ listed' \in Seq(ExistingType) /\ Len(listed') <= Len(existing')
          /\ \A k \in DOMAIN listed' : listed'[k] = existing'[k]
      <4>1. /\ listed \in Seq(ExistingType) /\ Len(listed) <= Len(existing)
            /\ existing \in Seq(ExistingType)
            /\ \A k \in DOMAIN listed : listed[k] = existing[k]
        BY <1>1 DEF TypeOK
      <4>2. DOMAIN listed \subseteq DOMAIN existing
        BY <4>1
      <4>. QED BY <2>1, <2>7, <4>1, <4>2
    <3>2. TypeOK'
      BY <1>1, <2>1, <2>2, <2>3, <2>5, <2>7, <3>1 DEF TypeOK, Rule
    <3>3. PICK f, g : f = at[1] /\ g = at[2]
      OBVIOUS
    <3>4. Stands(f, g)'
      BY <1>1, <2>1, <3>3 DEF Stands, Rule, Remote
    <3>5. Done(f, g)'
      BY <3>4 DEF Done
    <3>. QED BY <1>1, <2>1, <2>4, <2>7, <3>2, <3>3, <3>5, NextRemoteInv
  <2>. QED BY <1>3, <2>6, <2>7
<1>. QED BY <1>2, <1>3 DEF CreateSecurityGroupRule

\* NextRule.
LEMMA NextRuleInv ==
    ASSUME RulesInv, NextRule
    PROVE  RulesInv'
<1>1. /\ at[1] \in DOMAIN rules /\ at[2] \in Nat /\ Len(Rule.remotes) \in Nat
      /\ at[1] \in 1..Len(rules) /\ at[1] \in Nat /\ at[2] > Len(Rule.remotes)
      /\ rules \in Seq(RuleType) /\ DOMAIN Rule.remotes = 1..Len(Rule.remotes)
  BY StandsAt, RulesAreGood DEF RulesInv, TypeOK, NextRule
<1>2. TypeOK'
  <2>1. CASE at[1] = Len(rules)
    BY <2>1 DEF RulesInv, TypeOK, NextRule, Returns
  <2>2. CASE at[1] # Len(rules)
    <3>1. at' = <<at[1] + 1, 0>> /\ at[1] + 1 \in 1..Len(rules)
      BY <1>1, <2>2 DEF NextRule
    <3>2. at' \in Nat \X Nat /\ at'[1] \in 1..Len(rules)
      BY <1>1, <3>1
    <3>. QED BY <2>2, <3>2 DEF RulesInv, TypeOK, NextRule
  <2>. QED BY <2>1, <2>2
<1>3. MadeFromSpec'
  BY DEF RulesInv, MadeFromSpec, NextRule
<1>4. ASSUME NEW i \in DOMAIN rules, NEW m \in DOMAIN rules[i].remotes, passes \/ i <= at[1]
      PROVE  Done(i, m)
  <2>1. passes \/ i < at[1] \/ (i = at[1] /\ m < at[2])
    <3>1. i \in Nat
      BY <1>1
    <3>2. i = at[1] => m \in 1..Len(Rule.remotes)
      BY <1>1 DEF Rule
    <3>. QED BY <1>1, <1>4, <3>1, <3>2
  <2>. QED BY <2>1 DEF RulesInv, GoneThrough, NextRule
<1>5. GoneThrough'
  <2>. SUFFICES ASSUME NEW i \in DOMAIN rules, NEW m \in DOMAIN rules[i].remotes,
                       \/ passes'
                       \/ pc' # "idle" /\ i < at'[1]
                       \/ pc' = "remote" /\ i = at'[1] /\ m < at'[2]
                PROVE  Done(i, m)
    BY DEF GoneThrough, NextRule, Done, Stands, Shadowed
  <2>1. i \in 1..Len(rules) /\ i \in Nat
    BY <1>1
  <2>2. passes \/ i <= at[1]
    BY <1>1, <2>1 DEF NextRule, Returns
  <2>. QED BY <2>2, <1>4
<1>6. ListedIsFresh'
  BY DEF ListedIsFresh, NextRule, Returns
<1>. QED BY <1>2, <1>3, <1>5, <1>6 DEF RulesInv

\* Every step preserves the invariant.
LEMMA RulesStep ==
    ASSUME RulesInv, [Next]_vars
    PROVE  RulesInv'
<1>1. CASE StartReconcile
  BY <1>1, StartReconcileInv
<1>2. CASE ListSecurityGroupRules
  BY <1>2, ListInv
<1>3. CASE CheckPanics
  <2>1. faults' \in 0..MaxFaults
    BY <1>3 DEF CheckPanics, RulesInv, TypeOK
  <2>. QED BY <1>3, <2>1, ReturnsInv DEF CheckPanics
<1>4. CASE RemoteFound
  BY <1>4, RemoteFoundInv
<1>5. CASE CreateSecurityGroupRule
  BY <1>5, CreateInv
<1>6. CASE NextRule
  BY <1>6, NextRuleInv
<1>7. CASE Crash
  <2>1. faults' \in 0..MaxFaults
    BY <1>7, FaultArithmetic DEF Crash, RulesInv, TypeOK
  <2>. QED BY <1>7, <2>1, ReturnsInv DEF Crash
<1>8. CASE UNCHANGED vars
  <2>. USE <1>8 DEF vars, ctlVars
  <2>1. TypeOK'
    BY DEF RulesInv, TypeOK
  <2>2. MadeFromSpec'
    BY DEF RulesInv, MadeFromSpec
  <2>3. GoneThrough'
    BY DEF RulesInv, GoneThrough, Done, Stands, Shadowed
  <2>4. ListedIsFresh'
    BY DEF RulesInv, ListedIsFresh, AllHavePorts, Portless
  <2>. QED BY <2>1, <2>2, <2>3, <2>4 DEF RulesInv
<1>. QED BY <1>1, <1>2, <1>3, <1>4, <1>5, <1>6, <1>7, <1>8 DEF Next, Steps

\* The invariant holds in every reachable state.
THEOREM Invariance == Spec => []RulesInv
BY RulesInit, RulesStep, PTL DEF Spec

\* reconcileSecurityGroupRules: after a full pass each remote of each rule is in
\* the group, but for a remote that is any and was taken for another.
THEOREM RulesAreThere == Spec => []RulesStand
<1>1. RulesInv => RulesStand
  BY DEF RulesInv, GoneThrough, Done, RulesStand
<1>. QED BY <1>1, Invariance, PTL

\* reconcileSecurityGroupRules: after a full pass no reconcile creates another
\* rule, whatever fails and restarts in between, if each tcp and udp rule has
\* its ports.
THEOREM GroupSettles == Spec => Settles
<1>1. RulesInv /\ [Next]_vars
      => [passes /\ (\A i \in DOMAIN rules : ~Portless(i)) => existing' = existing]_vars
  <2>. SUFFICES ASSUME RulesInv, Next, passes, AllHavePorts
                PROVE  existing' = existing
    BY DEF AllHavePorts
  <2>1. ~CreateSecurityGroupRule
    BY NothingCreated DEF CreateSecurityGroupRule
  <2>. QED BY <2>1
     DEF Next, Steps, StartReconcile, ListSecurityGroupRules, CheckPanics, RemoteFound,
         NextRule, Crash
<1>. QED BY <1>1, Invariance, PTL DEF Spec, Settles

=============================================================================
