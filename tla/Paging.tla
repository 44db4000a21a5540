------------------------------- MODULE Paging -------------------------------
(***************************************************************************)
(* Looking a resource up by its name or ID.  IBM Cloud lists a collection  *)
(* page by page, and the other users of the account add to it and remove   *)
(* from it between two pages.  pagingutils.PagingHelper calls f for a page *)
(* until f is done, fails, or no page is left; every lookup of the         *)
(* controllers is an f of one of a few shapes.                             *)
(***************************************************************************)
EXTENDS Naturals, FiniteSets

CONSTANTS
    Slots,     \* bound on the places of the collection
    PageSize,  \* the items of a full page
    Lookups    \* the lookups that may be made

\* The shape of a lookup's f.  scan: "first" is done at the first match, "each"
\* takes every match of every page, "unique" does too and fails when there are
\* several.  next: what f returns as nextURL, the link of the next page or only
\* the start token of that link.
Shapes == [scan : {"first", "each", "unique"}, next : {"url", "token"}]
FirstMatch == [scan |-> "first", next |-> "url"]
EachMatch == [scan |-> "each", next |-> "url"]
UniqueMatch == [scan |-> "unique", next |-> "token"]

\* The lookups of the VPC and Transit Gateway clients.
GetDedicatedHostByName == FirstMatch
GetVPCByName == FirstMatch
GetImageByName == FirstMatch
GetVPCPublicGatewayByName == FirstMatch
GetVPCSubnetByName == FirstMatch
GetLoadBalancerByName == FirstMatch
GetTransitGatewayByName == FirstMatch

\* The lookups of the VPC cluster and machine scopes.
EnsureVPCUnique == FirstMatch
GetSubnetAddrPrefix == FirstMatch
EnsureSubnetUnique == FirstMatch
SubnetToDelete == FirstMatch
GetLoadBalancerByHostname == FirstMatch
EnsureLoadBalancerUnique == FirstMatch
LoadBalancerToDelete == EachMatch
EnsureInstanceUnique == FirstMatch
FetchKeyID == FirstMatch
FetchImageID == FirstMatch

\* The lists of capibmadm: every item is a match.
ListKeys == EachMatch
ListImages == EachMatch

\* The lookups of the Resource Controller client, which return the value of the
\* SDK's GetNextStart, the start parameter of the link.
GetServiceInstance == UniqueMatch
GetInstanceByName == UniqueMatch
GetResourceInstanceByFilter == UniqueMatch

URLLookups == {GetDedicatedHostByName, GetVPCByName, GetImageByName,
    GetVPCPublicGatewayByName, GetVPCSubnetByName, GetLoadBalancerByName,
    GetTransitGatewayByName, EnsureVPCUnique, GetSubnetAddrPrefix,
    EnsureSubnetUnique, SubnetToDelete, GetLoadBalancerByHostname,
    EnsureLoadBalancerUnique, LoadBalancerToDelete, EnsureInstanceUnique,
    FetchKeyID, FetchImageID, ListKeys, ListImages}
TokenLookups ==
    {GetServiceInstance, GetInstanceByName, GetResourceInstanceByFilter}

ASSUME SizeAssumption == Slots \in Nat /\ PageSize \in Nat \ {0}
ASSUME LookupsAssumption == Lookups \subseteq URLLookups \cup TokenLookups

Place == 1 .. Slots
FromTheTop == 0     \* the empty start token

VARIABLES
    items,     \* at each place of the collection "none", a "match" or an "other"
    phase,     \* "idle" or "list"
    lookup,    \* the shape of the current or last lookup
    start,     \* the start token: the page begins after this place
    found,     \* the places of the matches taken
    repeated,  \* whether one of them was taken twice
    answer,    \* "nil", "one", "several" or "error"; "none" while it lists
    stayed     \* the matches that were there since the lookup began

ctlVars == <<phase, lookup, start, found, repeated, answer>>
lookupVars == <<items, ctlVars, stayed>>

LookupTypeOK ==
    /\ items \in [Place -> {"none", "match", "other"}]
    /\ phase \in {"idle", "list"}
    /\ lookup \in Shapes
    /\ start \in 0 .. Slots
    /\ found \subseteq Place
    /\ repeated \in BOOLEAN
    /\ answer \in {"none", "nil", "one", "several", "error"}
    /\ stayed \subseteq Place

LookupInit ==
    /\ items \in [Place -> {"none", "match", "other"}]
    /\ phase = "idle" /\ lookup \in Lookups /\ start = FromTheTop
    /\ found = {} /\ repeated = FALSE /\ answer = "error" /\ stayed = {}

Matches == {p \in Place : items[p] = "match"}

-----------------------------------------------------------------------------
(* The collection.  Items keep their place; a page begins after the place  *)
(* its token names, and there is a next page when an item is left.         *)

Add(p, kind) ==
    /\ items[p] = "none" /\ kind \in {"match", "other"}
    /\ items' = [items EXCEPT ![p] = kind]
    /\ UNCHANGED <<ctlVars, stayed>>

Remove(p) ==
    /\ items[p] # "none"
    /\ items' = [items EXCEPT ![p] = "none"]
    /\ stayed' = IF phase = "list" THEN stayed \ {p} ELSE stayed
    /\ UNCHANGED ctlVars

After(p) == {q \in Place : items[q] # "none" /\ q > p}

Page(from, to) == {q \in After(from) : q <= to}

\* The last place of the page that begins after p: p itself when it is empty.
PageEnds(p) ==
    IF After(p) = {} THEN {p}
    ELSE {q \in After(p) : \/ Cardinality(Page(p, q)) = PageSize
                           \/ /\ Cardinality(Page(p, q)) < PageSize
                              /\ After(q) = {}}

-----------------------------------------------------------------------------
(* PagingHelper.                                                           *)

Begin(l) ==
    /\ phase = "idle" /\ phase' = "list"
    /\ lookup' = l /\ start' = FromTheTop
    /\ found' = {} /\ repeated' = FALSE /\ answer' = "none"
    /\ stayed' = Matches
    /\ UNCHANGED items

Return(a) == phase' = "idle" /\ answer' = a

\* Mutants: the start parameter is read under a wrong name, so every page is the
\* first one; the next page begins after its own first item.
NoStart(next) == FromTheTop
PastTheNext(next) == IF next < Slots THEN next + 1 ELSE next

\* getStartToken parses nextURL as a URL.  A start token parses as one without a
\* query, of which the start parameter is the empty string.
GetStartToken(next) == IF lookup.next = "url" THEN next ELSE FromTheTop

\* The matches f takes from a page.
Hits(page) ==
    LET all == {q \in page : items[q] = "match"}
    IN  IF lookup.scan = "first"
        THEN {q \in all : \A r \in all : q <= r}
        ELSE all

\* f returns isDone.
IsDone(page) == lookup.scan = "first" /\ Hits(page) # {}

\* What the lookup returns once PagingHelper has: 0, 1 or more entries in the
\* list.
Found(list, twice) ==
    CASE list = {} -> "nil"
      [] lookup.scan = "unique" /\ (twice \/ \E p, q \in list : p # q) -> "several"
      [] OTHER -> "one"

\* One call of f, and what PagingHelper does with its answer.
ListPage(to) ==
    LET page == Page(start, to)
        list == found \cup Hits(page)
        twice == repeated \/ found \cap Hits(page) # {}
        done == IsDone(page) \/ After(to) = {}
    IN  /\ phase = "list"
        /\ found' = list /\ repeated' = twice
        /\ \/ done /\ Return(Found(list, twice)) /\ UNCHANGED start
           \/ ~done /\ start' = GetStartToken(to) /\ UNCHANGED <<phase, answer>>
        /\ UNCHANGED <<items, lookup, stayed>>

\* The list call fails, and PagingHelper returns its error.
ListFails ==
    /\ phase = "list" /\ Return("error")
    /\ UNCHANGED <<items, lookup, start, found, repeated, stayed>>

-----------------------------------------------------------------------------
LookupNext ==
    \/ \E p \in Place, kind \in {"match", "other"} : Add(p, kind)
    \/ \E p \in Place : Remove(p)
    \/ \E l \in Lookups : Begin(l)
    \/ \E to \in PageEnds(start) : ListPage(to)
    \/ ListFails

LookupSpec == LookupInit /\ [][LookupNext]_lookupVars

\* A lookup runs in the reconcile that makes it and goes on as long as the
\* service answers.
Listing == \E to \in PageEnds(start) : ListPage(to)
FairLookupSpec == LookupSpec /\ WF_lookupVars(Listing)

-----------------------------------------------------------------------------
(* Properties.                                                             *)

\* A lookup that answers nil, which its callers take for leave to create, did
\* not pass over a match that was there all the time, whatever was added and
\* removed around it and however the pages fell; and one that goes through all
\* the pages took every such match.
FoundIfThere ==
    (phase = "idle" /\ answer # "error") =>
        IF lookup.scan = "first" THEN found = {} => stayed = {}
                                 ELSE stayed \subseteq found

\* A lookup that follows the links takes no match twice, so capibmadm lists
\* nothing twice and DeleteLoadBalancer deletes a load balancer once.
TakenOnce == lookup.next = "url" => ~repeated

\* A lookup that follows the links ends, however the collection changes while
\* it runs.
LookupEnds == (phase = "list" /\ lookup.next = "url") ~> (phase = "idle")

\* "found multiple resource instances matching filters": there were several.
SeveralWereFound == answer = "several" => \E p, q \in found : p # q
=============================================================================
