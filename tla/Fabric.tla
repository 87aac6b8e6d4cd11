------------------------------- MODULE Fabric -------------------------------
(***************************************************************************)
(* The DCD and GFAM operations of the server: connection threads run       *)
(* handle_capacity_management_request and check_fabric_access              *)
(* (main_server.cc) on the controller's DynamicCapacityDevice (module Dcd) *)
(* and GFAMDevice (dcd_gfam.cpp).  The two devices have a mutex each and   *)
(* no operation holds both: a grant or an access reads the allocation      *)
(* under one lock and uses the answer under the other, and a release drops *)
(* the extent before the mappings.  Each locked section is one step here,  *)
(* and fpc says where between two of them a thread is.  A thread is known  *)
(* to GFAM by its connection number.  Latency, bandwidth shares and the    *)
(* access counters are left out: no decision reads them.                   *)
(***************************************************************************)
EXTENDS Dcd

CONSTANTS
  Hosts,            \* the host ids enable_gfam registers
  Threads,          \* connection threads; thread_id is used as a host id
  Bases, Sizes,     \* the ranges requests carry
  ReleaseSizes,     \* the sizes OP_DCD_RELEASE carries
  MaxMappings       \* bound of the model on mappings_

ASSUME FabricAssumption ==
  /\ Bases \subseteq 0 .. MaxU64
  /\ Sizes \subseteq 0 .. MaxU64 /\ ReleaseSizes \subseteq 0 .. MaxU64
  /\ MaxMappings \in Nat

VARIABLES
  active_hosts,     \* the hosts_ entries with active = true
  mappings,         \* mappings_
  fpc,               \* fpc[t]: the step thread t is about to take
  req,              \* req[t]: the range and host its request is about
  \* history, not in the code:
  granted,          \* every mapping GFAM ever recorded
  whole             \* the mappings that were a live extent's range when recorded

fabricVars == <<extents, next_tag, active_hosts, mappings, fpc, req, granted, whole>>

Perms == {"READ", "WRITE", "ATOMIC"}
PermChoices == {Perms, {"READ"}}
HostIds == Hosts \cup Threads
Mapping == [host : HostIds, base : U64, size : U64, perms : SUBSET Perms]

required_permissions_Bug(kind) ==
  CASE kind = "atomic" -> {"ATOMIC", "READ", "WRITE", "SHARED"}
    [] kind = "write"  -> {"WRITE"}
    [] kind = "read"   -> {"READ"}

required_permissions(kind) ==
  CASE kind = "atomic" -> {"ATOMIC", "READ", "WRITE"}
    [] kind = "write"  -> {"WRITE"}
    [] kind = "read"   -> {"READ"}

\* mapping_covers and the permission test of record_access and check_access.
Allows(m, host, base, size, need) ==
  /\ m.host = host
  /\ range_contains(m.base, m.size, base, size)
  /\ need \subseteq m.perms
-----------------------------------------------------------------------------
Range4(host, base, size, perms) ==
  [host |-> host, base |-> base, size |-> size, perms |-> perms]

NoReq(t) == Range4(t, 0, 0, {})

FabricGo(t, step, r) ==
  /\ fpc' = [fpc EXCEPT ![t] = step]
  /\ req' = [req EXCEPT ![t] = r]

\* The handler answers and waits for the next request.
Respond(t) == FabricGo(t, "idle", NoReq(t))

\* Model bound: mappings present and on their way.
MappingRoom ==
  Cardinality(mappings) + Cardinality({t \in Threads : fpc[t] \in {"grant_check", "grant"}})
    < MaxMappings

\* enable_gfam: registers the hosts and grants each of them every extent.
FabricInit ==
  /\ DcdInit
  /\ active_hosts = Hosts
  /\ mappings = {Range4(h, e.base, e.size, Perms) : h \in Hosts, e \in extents}
  /\ granted = mappings /\ whole = mappings
  /\ fpc = [t \in Threads |-> "idle"]
  /\ req = [t \in Threads |-> NoReq(t)]

\* OP_DCD_ADD: the device operation; on success the adder is granted the
\* extent as it was rounded and placed.
DcdAdd(t) ==
  /\ fpc[t] = "idle" /\ MappingRoom
  /\ \E base \in Bases, size \in Sizes, tag \in Tags :
       LET result == AddResult(base, size, tag)
       IN  /\ add_capacity(base, size, tag)
           /\ IF result.status = "OK"
              THEN FabricGo(t, "grant_check", Range4(t, result.base, result.size, Perms))
              ELSE UNCHANGED <<fpc, req>>
  /\ UNCHANGED <<active_hosts, mappings, granted, whole>>

\* OP_DCD_RELEASE: the extent goes first; the mappings follow in RevokeExtent.
DcdRelease(t) ==
  /\ fpc[t] = "idle"
  /\ \E base \in Bases, size \in ReleaseSizes, tag \in Tags :
       /\ release_capacity(base, size, tag)
       /\ IF ReleaseStatus(base, size, tag) = "OK"
          THEN FabricGo(t, "revoke", Range4(t, base, size, {}))
          ELSE UNCHANGED <<fpc, req>>
  /\ UNCHANGED <<active_hosts, mappings, granted, whole>>

revoke_extent_Bug(t) ==
  /\ fpc[t] = "revoke"
  /\ mappings' = {m \in mappings : ~ (/\ m.base = req[t].base
                                      /\ m.size = req[t].size
                                      /\ m.host = t)}
  /\ whole' = whole \cap mappings'
  /\ Respond(t)
  /\ UNCHANGED <<extents, next_tag, active_hosts, granted>>

\* Removes the mappings of exactly the released range, as the request gave
\* it.
revoke_extent(t) ==
  /\ fpc[t] = "revoke"
  /\ mappings' = {m \in mappings : ~ (/\ m.base = req[t].base
                                      /\ m.size = req[t].size)}
  /\ whole' = whole \cap mappings'
  /\ Respond(t)
  /\ UNCHANGED <<extents, next_tag, active_hosts, granted>>

\* OP_GFAM_MAP: any connection may name any host.
GfamMap(t) ==
  /\ fpc[t] = "idle" /\ MappingRoom
  /\ \E host \in HostIds, base \in Bases, size \in Sizes, p \in PermChoices :
       FabricGo(t, "grant_check", Range4(host, base, size, p))
  /\ UNCHANGED <<extents, next_tag, active_hosts, mappings, granted, whole>>

\* grant_access up to its first return: is_allocated under the DCD lock.
GrantCheck(t) ==
  /\ fpc[t] = "grant_check"
  /\ IF is_allocated(req[t].base, req[t].size)
     THEN FabricGo(t, "grant", req[t])
     ELSE Respond(t)
  /\ UNCHANGED <<extents, next_tag, active_hosts, mappings, granted, whole>>

\* The rest of grant_access, under the GFAM lock: an unknown or inactive host
\* is refused, a mapping of the same range gets the new permissions.
grant_access(t) ==
  /\ fpc[t] = "grant"
  /\ LET r == req[t]
         others == {m \in mappings : ~ (/\ m.host = r.host
                                        /\ m.base = r.base
                                        /\ m.size = r.size)}
     IN  IF r.host \in active_hosts
         THEN /\ mappings' = others \cup {r}
              /\ granted' = granted \cup {r}
              /\ whole' = (whole \cap others) \cup
                   {m \in {r} : \E e \in extents : e.base = m.base /\ e.size = m.size}
         ELSE UNCHANGED <<mappings, granted, whole>>
  /\ Respond(t)
  /\ UNCHANGED <<extents, next_tag, active_hosts>>

\* OP_GFAM_UNMAP: exact match only.
revoke_access(t) ==
  /\ fpc[t] = "idle"
  /\ \E host \in HostIds, base \in Bases, size \in Sizes :
       mappings' = {m \in mappings : ~ (/\ m.host = host /\ m.base = base
                                        /\ m.size = size)}
  /\ whole' = whole \cap mappings'
  /\ UNCHANGED <<extents, next_tag, active_hosts, fpc, req, granted>>

\* check_fabric_access: dcd_is_allocated, or NOT_FOUND.
AccessStart(t) ==
  /\ fpc[t] = "idle"
  /\ \E base \in Bases, size \in Sizes, kind \in {"read", "write", "atomic"} :
       /\ is_allocated(base, size)
       /\ FabricGo(t, "record_check", Range4(t, base, size, required_permissions(kind)))
  /\ UNCHANGED <<extents, next_tag, active_hosts, mappings, granted, whole>>

\* record_access asks the DCD a second time, under its own lock scope.
RecordCheck(t) ==
  /\ fpc[t] = "record_check"
  /\ IF is_allocated(req[t].base, req[t].size)
     THEN FabricGo(t, "record", req[t])
     ELSE Respond(t)
  /\ UNCHANGED <<extents, next_tag, active_hosts, mappings, granted, whole>>

record_access_Bug(t) ==
  /\ fpc[t] = "record"
  /\ LET r == req[t]
         allowed == \E m \in mappings :
                      range_contains(m.base, m.size, r.base, r.size)
     IN  IF allowed THEN FabricGo(t, "touch", r) ELSE Respond(t)
  /\ UNCHANGED <<extents, next_tag, active_hosts, mappings, granted, whole>>

\* record_access under the GFAM lock.
record_access(t) ==
  /\ fpc[t] = "record"
  /\ LET r == req[t]
         allowed == /\ t \in active_hosts
                    /\ \E m \in mappings : Allows(m, t, r.base, r.size, r.perms)
     IN  IF allowed THEN FabricGo(t, "touch", r) ELSE Respond(t)
  /\ UNCHANGED <<extents, next_tag, active_hosts, mappings, granted, whole>>

\* handle_request goes on to the memory access (module ServerMemory).
Touch(t) ==
  /\ fpc[t] = "touch"
  /\ Respond(t)
  /\ UNCHANGED <<extents, next_tag, active_hosts, mappings, granted, whole>>

FabricNext ==
  \E t \in Threads :
     \/ DcdAdd(t) \/ DcdRelease(t) \/ revoke_extent(t)
     \/ GfamMap(t) \/ GrantCheck(t) \/ grant_access(t) \/ revoke_access(t)
     \/ AccessStart(t) \/ RecordCheck(t) \/ record_access(t) \/ Touch(t)

FabricSpec == FabricInit /\ [][FabricNext]_fabricVars
-----------------------------------------------------------------------------
\* The devices' tables and the threads' requests have their types: only
\* registered hosts are active, and no permission is invented on the way.
FabricTypeOK ==
  /\ DcdTypeOK
  /\ active_hosts \subseteq Hosts
  /\ mappings \subseteq Mapping /\ granted \subseteq Mapping /\ whole \subseteq mappings
  /\ fpc \in [Threads -> {"idle", "revoke", "grant_check", "grant",
                         "record_check", "record", "touch"}]
  /\ req \in [Threads -> Mapping]

\* However adds, releases, maps and unmaps of other connections interleave
\* with its two checks, a connection reaches memory only in a range that some
\* grant gave to it, with permissions that cover the access.
AccessWasGranted ==
  \A t \in Threads :
     fpc[t] = "touch" =>
       \E m \in granted : Allows(m, t, req[t].base, req[t].size, req[t].perms)

\* Capacity goes away together with the access to it: a mapping that was
\* recorded for a live extent, by whichever host and connection, is gone once
\* that extent's release has run to its end (dcd_release_capacity), so it
\* never gives access to capacity that was released.
WholeMappingsBacked ==
  (\A t \in Threads : fpc[t] # "revoke") =>
    \A m \in whole : is_allocated(m.base, m.size)
=============================================================================
