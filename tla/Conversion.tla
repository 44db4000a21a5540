----------------------------- MODULE Conversion ------------------------------
(***************************************************************************)
(* The conversion webhook of the PowerVS API.  The API server stores the   *)
(* hub version, v1beta3; clients of v1beta2 read an object through         *)
(* ConvertFrom and write it back through ConvertTo, clients of v1beta3     *)
(* (the controllers among them) read and write the hub as it is.  The two  *)
(* versions say the same thing in different shapes: v1beta3 has unions     *)
(* with an explicit type where v1beta2 leaves it to be inferred from the   *)
(* fields that are set.                                                    *)
(*                                                                         *)
(* A behaviour follows one field of one object.  Every string is a member  *)
(* of a small set, "" is an absent one; a field has the same shape         *)
(* whatever it is:                                                         *)
(*   hub    type, the reference (id, name), the name to provision or to    *)
(*          import (alt), what else there is (extra)                       *)
(*   spoke  whether the pointer is set, id, name, the other way v1beta2    *)
(*          has of saying it (alt), what else there is (extra), and the    *)
(*          ControllerCreated of the status                                *)
(***************************************************************************)
CONSTANTS
    Fields,  \* the pairs of an object and a field of it that are followed
    Ids,     \* identifiers
    Names,   \* names
    Extras   \* regions, zones, buckets, port ranges, host names

ASSUME StringsAssumption == "" \notin Ids \cup Names \cup Extras
ASSUME EnumAssumption == Extras \cap {"true", "false"} = {}

Opt(S) == S \cup {""}
Unions == {"workspace", "resourceGroup", "network", "transitGateway", "vpc",
           "subnet", "loadBalancer", "securityGroup", "cosInstance"}

\* The fields of each object.
ClusterSpecFields == Unions \cup {"rule", "prototype"}
ClusterFields == ClusterSpecFields \cup {"topology", "provisioned",
                    "statusReference", "subnetStatus", "namedStatus"}
AllFields ==
    ({"cluster"} \X ClusterFields) \cup ({"clusterTemplate"} \X ClusterSpecFields)
    \cup ({"machine"} \X {"identifier", "image", "provisioned"})
    \cup ({"machineTemplate"} \X {"identifier", "image"})
    \cup ({"image"} \X {"identifier"})
ASSUME FieldsAssumption == Fields \subseteq AllFields

-----------------------------------------------------------------------------
(* What each version lets its clients write. *)

Hubs(types, ids, names, alts, extras) ==
    [type : types, id : ids, name : names, alt : alts, extra : extras]

\* A reference has one of id and name; the members of a union exclude each other.
Identifiers(type, extras) ==
    Hubs({type}, Ids, {""}, {""}, extras) \cup Hubs({type}, {""}, Names, {""}, extras)
Provisions(extras) == Hubs({"Provision"}, {""}, {""}, Opt(Names), extras)
Union(shared, provisioned) == Identifiers("Reference", shared) \cup Provisions(provisioned)

HubValues ==
    [workspace |-> Union({""}, {""}),
     resourceGroup |-> Identifiers("Reference", {""}),
     network |-> Union({""}, {"", "Enabled", "Disabled"}),
     transitGateway |-> Union({""}, {"", "Global", "Local"}),
     vpc |-> Union(Extras, Extras),
     subnet |-> Union(Opt(Extras), Opt(Extras)),
     loadBalancer |-> Union({""}, {"", "Public", "Private"}),
     securityGroup |-> Union({""}, Opt(Extras)),
     cosInstance |-> Union(Opt(Extras), Opt(Extras)),
     \* the prototype of the direction, and only that one
     rule |-> Hubs({"inbound"}, Opt(Ids), Names, {""}, {""})
                \cup Hubs({"outbound"}, Opt(Ids), {""}, Names, {""}),
     prototype |-> Hubs({""}, Opt(Ids), Opt(Names), Opt(Names), Opt(Extras)),
     topology |-> Hubs({"LoadBalancer", "VirtualIP"}, {""}, {""}, {""}, {""}),
     provisioned |-> Hubs({""}, {""}, {""}, {""}, {"", "true", "false"}),
     statusReference |-> Hubs({""}, Ids, Names, {""}, {""}),
     subnetStatus |-> Hubs({""}, Ids, Names, {""}, {""}),
     namedStatus |-> Hubs({""}, Opt(Ids), Names, {""}, Opt(Extras)),
     identifier |-> Identifiers("", {""}),
     image |-> Identifiers("Reference", {""}) \cup Hubs({"Import"}, {""}, {""}, Names, {""})]

\* What a client sends, before the defaults of the schema.  Only the VPC has its
\* ControllerCreated followed.
Spokes(sets, ids, names, alts, extras) ==
    [set : sets, id : ids, name : names, alt : alts, extra : extras, created : {FALSE}]
Set(ids, names, alts, extras) == Spokes({TRUE}, ids, names, alts, extras)
Nil(alts, extras) == Spokes({FALSE}, {""}, {""}, alts, extras)

SpokeValues ==
    LET Id == Opt(Ids)
        Name == Opt(Names)
        Extra == Opt(Extras)
        Bool == {"", "true", "false"}
    IN [workspace |-> Set(Id, Name, Id, {""}) \cup Nil(Id, {""}),
        resourceGroup |-> Set(Id, Name, {""}, {""}) \cup Nil({""}, {""}),
        network |-> Spokes({TRUE}, Id, Name, Name, Bool)
                       \cup Spokes({FALSE}, Id, Name, {""}, {""}),
        transitGateway |-> Set(Id, Name, {""}, Bool) \cup Nil({""}, {""}),
        vpc |-> Set(Id, Name, {""}, Extra) \cup Nil({""}, {""})
                   \cup [set : {TRUE}, id : Id, name : Name, alt : {""}, extra : Extra,
                         created : {TRUE}],
        subnet |-> Set(Id, Name, {""}, Extra),
        loadBalancer |-> Set(Id, Name, {""}, Bool),
        securityGroup |-> Set(Id, Name, {""}, Extra),
        cosInstance |-> Set({""}, Name, {""}, Extra) \cup Nil({""}, {""}),
        rule |-> Set(Id, Names, {""}, {"inbound"}) \cup Set(Id, {""}, Names, {"outbound"}),
        prototype |-> Set(Id, Name, Name, Extras) \cup Spokes({FALSE}, Id, Name, Name, {""}),
        topology |-> Set({""}, {""}, {""}, Bool),
        provisioned |-> Set({""}, {""}, {""}, {"", "true"}),
        statusReference |-> Set(Id, {""}, {""}, {""}) \cup Nil({""}, {""}),
        subnetStatus |-> Set(Id, Names, {""}, {""}),
        namedStatus |-> Set(Id, Names, {""}, Extra),
        identifier |-> Set(Id, Name, Id, {""}) \cup Nil(Id, {""}),
        image |-> Set(Id, Name, Name, {""}) \cup Nil(Name, {""})]

EmptyHub == [type |-> "", id |-> "", name |-> "", alt |-> "", extra |-> ""]
EmptySpoke == [set |-> FALSE, id |-> "", name |-> "", alt |-> "", extra |-> "",
               created |-> FALSE]

SourceTypes == {"", "Reference", "Provision", "Import", "inbound", "outbound",
                "LoadBalancer", "VirtualIP"}
EnumValues == {"true", "false", "inbound", "outbound", "Enabled", "Disabled",
               "Global", "Local", "Public", "Private"}
HubType == Hubs(SourceTypes, Opt(Ids), Opt(Names), Opt(Ids \cup Names),
                Opt(Extras) \cup EnumValues)
SpokeType == [set : BOOLEAN, id : Opt(Ids), name : Opt(Ids \cup Names),
              alt : Opt(Ids \cup Names), extra : Opt(Extras) \cup EnumValues,
              created : BOOLEAN]
NoteType == [ok : BOOLEAN, hub : HubType]
NoNote == [ok |-> FALSE, hub |-> EmptyHub]

VARIABLES
    field,    \* the object and the field of it
    hub,      \* the field as it is stored
    spoke,    \* the copy of a v1beta2 client
    note,     \* the annotation of that copy with the hub it was made from
    pc,       \* "stored", "read" or "edited": what the client has
    tripped   \* whether the stored value was written by a v1beta2 client

vars == <<field, hub, spoke, note, pc, tripped>>

TypeOK ==
    /\ field \in Fields
    /\ hub \in HubType /\ spoke \in SpokeType /\ note \in NoteType
    /\ pc \in {"stored", "read", "edited"}
    /\ tripped \in BOOLEAN

\* The object has been created through v1beta3, or through v1beta2, before it
\* had a hub or after.
Init ==
    /\ field \in Fields
    /\ note = NoNote
    /\ tripped = FALSE
    /\ \/ hub \in HubValues[field[2]] /\ spoke = EmptySpoke /\ pc = "stored"
       \/ hub = EmptyHub /\ spoke \in SpokeValues[field[2]] /\ pc = "edited"

-----------------------------------------------------------------------------
(* From v1beta2 to v1beta3.  Each operator takes the v1beta2 value. *)

Hub(type, id, name, alt, extra) ==
    [type |-> type, id |-> id, name |-> name, alt |-> alt, extra |-> extra]
Reference(id, name, extra) == Hub("Reference", id, name, "", extra)
Provision(name, extra) == Hub("Provision", "", "", name, extra)

\* A pointer to a boolean and the enum that has replaced it.
ToEnum(b, yes, no) == IF b = "true" THEN yes ELSE IF b = "false" THEN no ELSE ""
ToBool(e, yes) == IF e = "" THEN "" ELSE IF e = yes THEN "true" ELSE "false"

WorkspaceToHub(s) ==
    IF ~s.set /\ s.alt = "" THEN Provision("", "")
    ELSE Reference(IF s.alt # "" THEN s.alt ELSE s.id, s.name, "")

ResourceGroupToHub(s) == IF s.set THEN Reference(s.id, s.name, "") ELSE EmptyHub

DHCPServerToHub(s) == Provision(s.alt, ToEnum(s.extra, "Enabled", "Disabled"))

NetworkToHub(s) ==
    IF s.id # "" \/ s.name # "" THEN Reference(s.id, s.name, "")
    ELSE IF s.set THEN DHCPServerToHub(s) ELSE EmptyHub

TransitGatewayToHub(s) ==
    IF s.id # "" THEN Reference(s.id, s.name, "")
    ELSE IF s.extra # "" THEN Provision(s.name, ToEnum(s.extra, "Global", "Local"))
    ELSE IF s.name # "" THEN Reference("", s.name, "")
    ELSE EmptyHub

VPCToHub(s) ==
    IF s.id # "" THEN Reference(s.id, s.name, s.extra) ELSE Provision(s.name, s.extra)

\* Mutant: a subnet with a zone is one to create.
ZoneDecides(s) ==
    IF s.extra = "" /\ s.id # "" THEN Reference(s.id, s.name, "") ELSE Provision(s.name, s.extra)

SubnetToHub(s) ==
    IF s.id # "" THEN Reference(s.id, s.name, s.extra) ELSE Provision(s.name, s.extra)

\* Public, of the data to provision with, is the one that always has a value.
LoadBalancerToHub(s) ==
    IF s.extra # "" \/ (s.name # "" /\ s.id = "")
    THEN Provision(s.name, ToEnum(s.extra, "Public", "Private"))
    ELSE IF s.id # "" THEN Reference(s.id, s.name, "") ELSE EmptyHub

SecurityGroupToHub(s) ==
    IF s.id # "" THEN Reference(s.id, s.name, "") ELSE Provision(s.name, s.extra)

RuleToHub(s) == Hub(s.extra, s.id, s.name, s.alt, "")

PrototypeToHub(s) == Hub("", s.id, s.name, s.alt, IF s.set THEN s.extra ELSE "")

CosInstanceToHub(s) ==
    IF s.name # "" \/ s.extra # "" THEN Provision(s.name, s.extra) ELSE EmptyHub

ImageToHub(s) ==
    IF s.alt # "" THEN Hub("Import", "", "", s.alt, "")
    ELSE IF s.set THEN Reference(s.id, s.name, "") ELSE EmptyHub

IdentifierToHub(s) ==
    IF s.set THEN Hub("", s.id, s.name, "", "") ELSE Hub("", s.alt, "", "", "")

StatusReferenceToHub(s) == Hub("", s.id, "", "", "")

\* Entries of the maps of the status; the key is the name.
SubnetStatusToHub(s) == IF s.id = "" THEN EmptyHub ELSE Hub("", s.id, s.name, "", "")
NamedStatusToHub(s) == Hub("", s.id, s.name, "", s.extra)

ClusterSpecToHub(k, s) ==
    CASE k = "workspace" -> WorkspaceToHub(s)
      [] k = "resourceGroup" -> ResourceGroupToHub(s)
      [] k = "network" -> NetworkToHub(s)
      [] k = "transitGateway" -> TransitGatewayToHub(s)
      [] k = "vpc" -> VPCToHub(s)
      [] k = "subnet" -> SubnetToHub(s)
      [] k = "loadBalancer" -> LoadBalancerToHub(s)
      [] k = "securityGroup" -> SecurityGroupToHub(s)
      [] k = "rule" -> RuleToHub(s)
      [] k = "prototype" -> PrototypeToHub(s)
      [] k = "cosInstance" -> CosInstanceToHub(s)

ClusterStatusToHub(k, s) ==
    CASE k = "statusReference" -> StatusReferenceToHub(s)
      [] k = "subnetStatus" -> SubnetStatusToHub(s)
      [] k = "namedStatus" -> NamedStatusToHub(s)

\* A false is no boolean, unless the annotation has a pointer to one.
BoolToPointer(s, n) ==
    LET restored == IF n.ok /\ n.hub.extra = "false" THEN "false" ELSE ""
    IN Hub("", "", "", "", IF s.extra = "true" THEN "true" ELSE restored)

\* The annotation never gets here, see ClusterNote.
ClusterConvertTo(k, s, n) ==
    CASE k = "topology" ->
            Hub(ToEnum(s.extra, "LoadBalancer", "VirtualIP"), "", "", "", "")
      [] k = "provisioned" -> BoolToPointer(s, n)
      [] k \in ClusterSpecFields -> ClusterSpecToHub(k, s)
      [] OTHER -> ClusterStatusToHub(k, s)

ClusterTemplateConvertTo(k, s) == ClusterSpecToHub(k, s)

MachineConvertTo(k, s, n) ==
    CASE k = "image" -> ImageToHub(s)
      [] k = "identifier" -> IdentifierToHub(s)
      [] k = "provisioned" -> BoolToPointer(s, n)

MachineTemplateConvertTo(k, s) == IF k = "image" THEN ImageToHub(s) ELSE IdentifierToHub(s)

\* The whole spec of the annotation, where there is one.
ImageConvertTo(s, n) == IF n.ok THEN n.hub ELSE IdentifierToHub(s)

ConvertTo(f, s, n) ==
    CASE f[1] = "cluster" -> ClusterConvertTo(f[2], s, n)
      [] f[1] = "clusterTemplate" -> ClusterTemplateConvertTo(f[2], s)
      [] f[1] = "machine" -> MachineConvertTo(f[2], s, n)
      [] f[1] = "machineTemplate" -> MachineTemplateConvertTo(f[2], s)
      [] f[1] = "image" -> ImageConvertTo(s, n)

-----------------------------------------------------------------------------
(* From v1beta3 to v1beta2. *)

Spoke(set, id, name, alt, extra) ==
    [set |-> set, id |-> id, name |-> name, alt |-> alt, extra |-> extra, created |-> FALSE]
Referenced(h) == h.type = "Reference" \/ h.id # "" \/ h.name # ""

WorkspaceToSpoke(h) ==
    IF Referenced(h) THEN Spoke(TRUE, h.id, h.name, h.id, "") ELSE EmptySpoke

ResourceGroupToSpoke(h) ==
    IF Referenced(h) THEN Spoke(TRUE, h.id, h.name, "", "") ELSE EmptySpoke

DHCPServerToSpoke(h) == Spoke(TRUE, "", "", h.alt, ToBool(h.extra, "Enabled"))

NetworkToSpoke(h) ==
    CASE h.type = "Reference" -> Spoke(FALSE, h.id, h.name, "", "")
      [] h.type = "Provision" -> DHCPServerToSpoke(h)
      [] OTHER -> EmptySpoke

\* One of the names of a union is set, the one of its type.
TheName(h) == IF h.type = "Reference" THEN h.name ELSE h.alt
NilIfEmpty(s) == IF s.id = "" /\ s.name = "" /\ s.extra = "" THEN EmptySpoke ELSE s

TransitGatewayToSpoke(h) ==
    NilIfEmpty(Spoke(TRUE, h.id, TheName(h), "", ToBool(h.extra, "Global")))

\* Mutant: only the name of a reference is carried over.
OnlyReferenceName(h) == NilIfEmpty(Spoke(TRUE, h.id, h.name, "", h.extra))

VPCToSpoke(h) == NilIfEmpty(Spoke(TRUE, h.id, TheName(h), "", h.extra))

SubnetToSpoke(h) == Spoke(TRUE, h.id, TheName(h), "", h.extra)

LoadBalancerToSpoke(h) == Spoke(TRUE, h.id, TheName(h), "", ToBool(h.extra, "Public"))

SecurityGroupToSpoke(h) == Spoke(TRUE, h.id, TheName(h), "", h.extra)

RuleToSpoke(h) ==
    Spoke(TRUE, h.id, IF h.type = "inbound" THEN h.name ELSE "",
          IF h.type = "outbound" THEN h.alt ELSE "", h.type)

PrototypeToSpoke(h) == Spoke(h.extra # "", h.id, h.name, h.alt, h.extra)

CosInstanceToSpoke(h) ==
    IF h.extra = "" /\ h.type = "" THEN EmptySpoke
    ELSE Spoke(TRUE, "", IF h.type = "Reference" THEN "" ELSE h.alt, "", h.extra)

ImageToSpoke(h) ==
    CASE h.type = "Import" -> Spoke(FALSE, "", "", h.alt, "")
      [] h.type = "Reference" -> Spoke(TRUE, h.id, h.name, "", "")
      [] OTHER -> EmptySpoke

IdentifierToSpoke(h) ==
    IF h.id # "" \/ h.name # "" THEN Spoke(TRUE, h.id, h.name, h.id, "") ELSE EmptySpoke

StatusReferenceToSpoke(h) == IF h.id # "" THEN Spoke(TRUE, h.id, "", "", "") ELSE EmptySpoke

EntryToSpoke(h) ==
    IF h.name = "" /\ h.id = "" THEN EmptySpoke
    ELSE Spoke(TRUE, h.id, IF h.name # "" THEN h.name ELSE h.id, "", h.extra)

ClusterSpecToSpoke(k, h) ==
    CASE k = "workspace" -> WorkspaceToSpoke(h)
      [] k = "resourceGroup" -> ResourceGroupToSpoke(h)
      [] k = "network" -> NetworkToSpoke(h)
      [] k = "transitGateway" -> TransitGatewayToSpoke(h)
      [] k = "vpc" -> VPCToSpoke(h)
      [] k = "subnet" -> SubnetToSpoke(h)
      [] k = "loadBalancer" -> LoadBalancerToSpoke(h)
      [] k = "securityGroup" -> SecurityGroupToSpoke(h)
      [] k = "rule" -> RuleToSpoke(h)
      [] k = "prototype" -> PrototypeToSpoke(h)
      [] k = "cosInstance" -> CosInstanceToSpoke(h)

ClusterStatusToSpoke(k, h) ==
    IF k = "statusReference" THEN StatusReferenceToSpoke(h) ELSE EntryToSpoke(h)

PointerToBool(h) == Spoke(TRUE, "", "", "", IF h.extra = "true" THEN "true" ELSE "")

\* VirtualIP deletes the annotation create-infra, whose absence is no topology.
ClusterConvertFrom(k, h) ==
    CASE k = "topology" ->
            Spoke(TRUE, "", "", "", IF h.type = "LoadBalancer" THEN "true" ELSE "")
      [] k = "provisioned" -> PointerToBool(h)
      [] k \in ClusterSpecFields -> ClusterSpecToSpoke(k, h)
      [] OTHER -> ClusterStatusToSpoke(k, h)

\* The resource group of a template that has neither id nor name is nil.
ClusterTemplateConvertFrom(k, h) ==
    IF k = "resourceGroup" THEN NilIfEmpty(ResourceGroupToSpoke(h))
    ELSE ClusterSpecToSpoke(k, h)

MachineConvertFrom(k, h) ==
    CASE k = "image" -> ImageToSpoke(h)
      [] k = "identifier" -> IdentifierToSpoke(h)
      [] k = "provisioned" -> PointerToBool(h)

MachineTemplateConvertFrom(k, h) ==
    IF k = "image" THEN ImageToSpoke(h) ELSE IdentifierToSpoke(h)

ImageConvertFrom(h) == IdentifierToSpoke(h)

ConvertFrom(f, h) ==
    CASE f[1] = "cluster" -> ClusterConvertFrom(f[2], h)
      [] f[1] = "clusterTemplate" -> ClusterTemplateConvertFrom(f[2], h)
      [] f[1] = "machine" -> MachineConvertFrom(f[2], h)
      [] f[1] = "machineTemplate" -> MachineTemplateConvertFrom(f[2], h)
      [] f[1] = "image" -> ImageConvertFrom(h)

\* MarshalData stores the hub in an annotation of the copy.  For a cluster and
\* its template UnmarshalData follows at once and takes it out again.
MarshalData(f, h) ==
    IF f[1] \in {"cluster", "clusterTemplate"} THEN NoNote ELSE [ok |-> TRUE, hub |-> h]

-----------------------------------------------------------------------------
(* The clients.  A write from a copy that is out of date is refused. *)

\* The defaults of the v1beta2 schema, which the API server sets in what a client
\* sends before it asks for the conversion: a load balancer is public, a DHCP
\* server has SNAT.
Defaulted(k, s) ==
    IF s.extra = "" /\ (k = "loadBalancer" \/ (k = "network" /\ s.set))
    THEN Spoke(s.set, s.id, s.name, s.alt, "true") ELSE s

\* A v1beta2 client reads the object.
Get ==
    /\ pc = "stored"
    /\ spoke' = ConvertFrom(field, hub)
    /\ note' = MarshalData(field, hub)
    /\ pc' = "read"
    /\ UNCHANGED <<field, hub, tripped>>

\* It changes its copy: edits it, annotation and all, or takes a manifest.
Edit ==
    /\ pc = "read"
    /\ spoke' \in SpokeValues[field[2]]
    /\ note' \in {note, NoNote}
    /\ pc' = "edited"
    /\ UNCHANGED <<field, hub, tripped>>

\* It writes its copy.
Put ==
    /\ pc \in {"read", "edited"}
    /\ hub' = ConvertTo(field, Defaulted(field[2], spoke), note)
    /\ spoke' = EmptySpoke /\ note' = NoNote
    /\ pc' = "stored"
    /\ tripped' = TRUE
    /\ UNCHANGED field

\* A v1beta3 client writes the object.
HubPut ==
    /\ hub # EmptyHub \/ tripped
    /\ hub' \in HubValues[field[2]]
    /\ spoke' = EmptySpoke /\ note' = NoNote
    /\ pc' = "stored"
    /\ tripped' = FALSE
    /\ UNCHANGED field

Next == Get \/ Edit \/ Put \/ HubPut

Spec == Init /\ [][Next]_vars

-----------------------------------------------------------------------------
(* Properties *)

\* A write of what was read.
PutBack == pc = "read" /\ Put

\* Once a v1beta2 client has written a field, reading it and writing it back
\* through v1beta2 changes nothing: clients that do so again and again do not
\* move the stored value.  Except for a cluster's VirtualIP topology and for a
\* reference to nothing in a template, which v1beta2 does not say.
NoDrift ==
    [][ (/\ PutBack /\ tripped
         /\ field # <<"cluster", "topology">>
         /\ (hub.type = "Reference") => (hub.id # "" \/ hub.name # ""))
        => hub' = hub ]_vars

\* A v1beta2 client that writes back what it has read never turns a reference
\* by ID, whoever wrote it, into something else: the controllers delete what is
\* of type Provision.  There are two exceptions.  v1beta2 cannot name a COS
\* instance by reference, and a load balancer that is sent without Public gets
\* the default, after which LoadBalancerToHub takes it for one to create: see
\* LoadBalancerByIDKept.
ReferenceByIDKept ==
    [][ (/\ PutBack /\ hub.type = "Reference" /\ hub.id # ""
         /\ field[2] \notin {"cosInstance", "loadBalancer"})
        => (hub'.type = "Reference" /\ hub'.id = hub.id) ]_vars

\* The same for load balancers.  Known not to hold: see conversion_lb.cfg.
LoadBalancerByIDKept ==
    [][ (/\ PutBack /\ hub.type = "Reference" /\ hub.id # ""
         /\ field[2] = "loadBalancer")
        => (hub'.type = "Reference" /\ hub'.id = hub.id) ]_vars

\* Status.ControllerCreated false means that the VPC is the user's, and the
\* v1beta3 type says so.
ControllerCreatedDecides ==
    [][ (Put /\ field = <<"cluster", "vpc">> /\ ~spoke.created /\ (spoke.id # "" \/ spoke.name # ""))
        => hub'.type = "Reference" ]_vars
=============================================================================
