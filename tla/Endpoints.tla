------------------------------ MODULE Endpoints ------------------------------
(***************************************************************************)
(* The network columns of providers.providers and the two cycles that fill *)
(* them: Discovery.ResolveEndpoints (resolve_endpoints) with the DHT       *)
(* adapter, and Update.UpdateIPInfo (lookup_ipinfo).  The dispatcher keeps *)
(* one job of a cycle in flight, from its trigger to the moment the        *)
(* backend applies its result.  Module CheckProofs adds the reader.        *)
(*                                                                         *)
(* Time is kept as ages: of updated_at, of the address in a row, of a run, *)
(* and of the last trigger of resolve_endpoints.                           *)
(***************************************************************************)
EXTENDS Integers, FiniteSetsExt

CONSTANTS
  Providers,      \* public keys with active relations
  IPs, NoIP,      \* addresses, and the empty one
  Null,           \* the value of an ip_info that was never set
  NullInfo,       \* providers whose ip_info may be NULL at first, not {}
  Home,           \* per provider: its first address, NoIP when it has none the
                  \* DHT finds or its key does not decode
  NewRows,        \* providers whose row was just inserted, the others' long ago
  Bags,           \* per provider: its bags
  EndpointTTL,    \* resolve_endpoints leaves younger endpoints alone
  EndpointMaxAge, \* check_proofs takes only younger endpoints
  Interval,       \* time between two triggers of resolve_endpoints
  Timeout,        \* longest time from a trigger to the applied result
  Stamps,         \* what the backend may do with an endpoint's updated_at:
                  \* store it (TRUE) or leave the column alone (FALSE)
  MaxMoves,       \* bound: changes of a provider's address
  MaxFaults       \* bound: lookups that fail, are cut off or answered wrongly

ASSUME EndpointsAssumption ==
  /\ NoIP \notin IPs /\ Null \notin IPs \cup {NoIP} /\ NullInfo \subseteq Providers
  /\ NewRows \subseteq Providers
  /\ Home \in [Providers -> IPs \cup {NoIP}]
  /\ EndpointTTL \in Nat \ {0} /\ EndpointMaxAge \in Nat
  /\ Interval \in Nat /\ Timeout \in Nat /\ Stamps \subseteq BOOLEAN
  /\ MaxMoves \in Nat /\ MaxFaults \in Nat

VARIABLES
  addr, moves,    \* per provider: where it really is
  ip, storage,    \* per provider: columns ip, and whether storage_ip is set
  upd,            \* per provider: age of updated_at
  known,          \* history: age of the run that found the address in ip
  info,           \* per provider: the address ip_info is about, or Null
  due,            \* time since the last trigger of resolve_endpoints
  rpc, rage,      \* resolve_endpoints: control point, age of the run
  rtodo, found,   \* its loop, and the endpoints it has resolved
  failed,         \* history: providers not resolved when they should have been
  lpc, ltodo,     \* lookup_ipinfo: control point, addresses to look up
  items,          \* and the addresses it has looked up
  faults

worldVars == <<addr, moves>>
rowVars == <<ip, storage, upd, known, info>>
resolveVars == <<due, rpc, rage, rtodo, found, failed>>
lookupVars == <<lpc, ltodo, items, faults>>
endpointVars == <<worldVars, rowVars, resolveVars, lookupVars>>

\* The longest time from one trigger to the next, the longest from a run that
\* resolves an address to the result of the next one that does, and the age
\* from which on ages are not told apart.
Greatest(m, n) == IF m > n THEN m ELSE n
Period == Greatest(Interval, Timeout)
Renewal == EndpointTTL + Period + Timeout
AgeBound == Greatest(EndpointMaxAge, Renewal)
Ages == 0..AgeBound
NoIPs == [p \in Providers |-> NoIP]

EndpointInit ==
  /\ addr = Home /\ moves = 0
  /\ ip = NoIPs /\ storage = {}
  /\ upd = [p \in Providers |-> IF p \in NewRows THEN 0 ELSE AgeBound]
  /\ known = [p \in Providers |-> 0]
  /\ \E S \in SUBSET NullInfo : info = [p \in Providers |-> IF p \in S THEN Null ELSE NoIP]
  /\ due = Interval /\ rpc = "idle" /\ rage = 0 /\ rtodo = {} /\ found = {} /\ failed = {}
  /\ lpc = "idle" /\ ltodo = NoIPs /\ items = NoIPs /\ faults = 0

Move(p) ==
  /\ moves < MaxMoves /\ addr[p] # NoIP
  /\ moves' = moves + 1
  /\ \E a \in IPs \ {addr[p]} : addr' = [addr EXCEPT ![p] = a]
  /\ UNCHANGED <<rowVars, resolveVars, lookupVars>>

Older(a) == IF a < AgeBound THEN a + 1 ELSE a

\* The dispatcher triggers resolve_endpoints when it is due and no job of it is
\* in flight, and a run that is neither cut off nor applied within Timeout does
\* not happen.
Tick ==
  /\ rpc = "idle" => due < Interval
  /\ rpc # "idle" => rage < Timeout
  /\ due' = due + 1
  /\ rage' = IF rpc = "idle" THEN 0 ELSE rage + 1
  /\ upd' = [p \in Providers |-> Older(upd[p])]
  /\ known' = [p \in Providers |-> IF ip[p] = NoIP THEN 0 ELSE Older(known[p])]
  /\ UNCHANGED <<worldVars, ip, storage, info, rpc, rtodo, found, failed, lookupVars>>

-----------------------------------------------------------------------------
\* ResolveEndpoints

\* The providers LoadAll returns an endpoint for; a younger one than the TTL is
\* left alone.
LoadAll == {p \in Providers : ip[p] # NoIP}
FaultySkip(p) == p \in LoadAll /\ upd[p] <= EndpointTTL
Skip(p) == p \in LoadAll /\ upd[p] < EndpointTTL

\* The relations and all endpoints are read and the run's clock is stopped;
\* a run without relations has nothing to do.
ResolveStart ==
  /\ rpc = "idle" /\ due >= Interval
  /\ due' = 0 /\ rage' = 0 /\ rpc' = "loop"
  /\ rtodo' = {p \in Providers : ~Skip(p)} /\ found' = {}
  /\ UNCHANGED <<worldVars, rowVars, failed, lookupVars>>

\* How many bags ResolveStorageWithOverlay looks at: a tenth of many, a fifth
\* of some, and all of a few.
BagsToCheck(n) ==
  IF n > 100 THEN Greatest(1, (n * 10) \div 100)
  ELSE IF n > 5 THEN Greatest(1, (n * 20) \div 100)
  ELSE n

\* The bags are shuffled and cut; the storage is found when the DHT lists a
\* node at the provider's address (near) in the overlay of one that is left.
OverlayFinds(p) ==
  {hit \in BOOLEAN :
     \E sample \in kSubset(BagsToCheck(Cardinality(Bags[p])), Bags[p]), near \in SUBSET Bags[p] :
       hit <=> sample \cap near # {}}

\* DHT.Resolve: without the provider's address it fails; the storage address,
\* for which the ADNL proof must verify, is a matter of luck.
FindProvider(p) == {addr[p], NoIP}
FindStorage(p) == BOOLEAN
DHTResolve(p) == {[ip |-> a, storage |-> s] : a \in FindProvider(p), s \in FindStorage(p)}

\* The overlay is searched when Resolve found no storage address, which may
\* stay empty.
Resolve(p) ==
  /\ rpc = "loop" /\ p \in rtodo
  /\ rtodo' = rtodo \ {p}
  /\ \E ep \in DHTResolve(p) :
       \/ /\ ep.ip = NoIP
          /\ failed' = failed \cup {p} /\ found' = found
       \/ /\ ep.ip # NoIP
          /\ \E s \in IF ep.storage THEN {TRUE} ELSE OverlayFinds(p) :
               found' = found \cup {[key |-> p, ip |-> ep.ip, storage |-> s]}
          /\ failed' = failed
  /\ UNCHANGED <<worldVars, rowVars, due, rpc, rage, lookupVars>>

\* The context is done, or the XADD fails: nothing is published.
ResolveFails ==
  /\ rpc = "loop"
  /\ failed' = failed \cup rtodo \cup {e.key : e \in found}
  /\ rpc' = "idle" /\ rage' = 0 /\ rtodo' = {} /\ found' = {}
  /\ UNCHANGED <<worldVars, rowVars, due, lookupVars>>

ResolvePublish ==
  /\ rpc = "loop" /\ rtodo = {}
  /\ rpc' = "sent"
  /\ UNCHANGED <<worldVars, rowVars, due, rage, rtodo, found, failed, lookupVars>>

\* The backend writes ip, port, storage_ip and storage_port
\* (docs/02-data-contracts.md:137).  The result also carries updated_at, the
\* time the run stopped its clock, which ResolveEndpoints and LoadFresh read
\* back from the row; whether the backend stores it is left open.
Keys(eps) == {e.key : e \in eps}
FaultyApplyEndpoints ==
  /\ rpc = "sent"
  /\ ip' = [p \in Providers |-> IF p \in Keys(found) THEN (CHOOSE e \in found : e.key = p).ip ELSE ip[p]]
  /\ storage' = (storage \ Keys(found)) \cup Keys({e \in found : e.storage})
  /\ upd' = [p \in Providers |-> IF p \in Keys(found) THEN 0 ELSE upd[p]]
  /\ known' = [p \in Providers |-> IF p \in Keys(found) THEN rage ELSE known[p]]
  /\ failed' = failed \ Keys(found)
  /\ rpc' = "idle" /\ rage' = 0 /\ found' = {}
  /\ UNCHANGED <<worldVars, info, due, rtodo, lookupVars>>
ApplyEndpoints ==
  /\ rpc = "sent"
  /\ ip' = [p \in Providers |-> IF p \in Keys(found) THEN (CHOOSE e \in found : e.key = p).ip ELSE ip[p]]
  /\ storage' = (storage \ Keys(found)) \cup Keys({e \in found : e.storage})
  /\ \E stamp \in Stamps :
       upd' = [p \in Providers |-> IF stamp /\ p \in Keys(found) THEN rage ELSE upd[p]]
  /\ known' = [p \in Providers |-> IF p \in Keys(found) THEN rage ELSE known[p]]
  /\ failed' = failed \ Keys(found)
  /\ rpc' = "idle" /\ rage' = 0 /\ found' = {}
  /\ UNCHANGED <<worldVars, info, due, rtodo, lookupVars>>

-----------------------------------------------------------------------------
\* UpdateIPInfo

\* GetProvidersIPs: rows with an address whose ip_info is {} or about another
\* address; of a NULL the SQL says neither.
FaultyNeedsInfo(p) == ip[p] # NoIP /\ info[p] = NoIP
NeedsInfo(p) == ip[p] # NoIP /\ info[p] \notin {ip[p], Null}
LookupStart ==
  /\ lpc = "idle"
  /\ lpc' = "loop" /\ items' = NoIPs
  /\ ltodo' = [p \in Providers |-> IF NeedsInfo(p) THEN ip[p] ELSE NoIP]
  /\ UNCHANGED <<worldVars, rowVars, resolveVars, faults>>

\* The reply names the address it describes, as a rule the one asked for, and
\* that is what is stored; without a reply the address is left for the next run.
Answers == IPs \cup {NoIP}
GetIPInfo(p) ==
  /\ lpc = "loop" /\ ltodo[p] # NoIP
  /\ ltodo' = [ltodo EXCEPT ![p] = NoIP]
  /\ \E a \in Answers :
       /\ items' = [items EXCEPT ![p] = a]
       /\ a # ltodo[p] => faults < MaxFaults
       /\ faults' = IF a # ltodo[p] THEN faults + 1 ELSE faults
  /\ UNCHANGED <<worldVars, rowVars, resolveVars, lpc>>

LookupPublish ==
  /\ lpc = "loop" /\ ltodo = NoIPs
  /\ lpc' = "sent"
  /\ UNCHANGED <<worldVars, rowVars, resolveVars, ltodo, items, faults>>

\* The table cannot be read, the context is done, or the XADD fails.
LookupFails ==
  /\ lpc = "loop" /\ faults < MaxFaults
  /\ faults' = faults + 1
  /\ lpc' = "idle" /\ ltodo' = NoIPs /\ items' = NoIPs
  /\ UNCHANGED <<worldVars, rowVars, resolveVars>>

ApplyInfo ==
  /\ lpc = "sent"
  /\ info' = [p \in Providers |-> IF items[p] # NoIP THEN items[p] ELSE info[p]]
  /\ lpc' = "idle" /\ items' = NoIPs
  /\ UNCHANGED <<worldVars, ip, storage, upd, known, resolveVars, ltodo, faults>>

LookupProgress ==
  \/ LookupStart \/ LookupPublish \/ ApplyInfo
  \/ \E p \in Providers : GetIPInfo(p)

-----------------------------------------------------------------------------
EndpointTypeOK ==
  /\ addr \in [Providers -> IPs \cup {NoIP}] /\ moves \in 0..MaxMoves
  /\ ip \in [Providers -> IPs \cup {NoIP}] /\ info \in [Providers -> IPs \cup {NoIP, Null}]
  /\ storage \subseteq Providers /\ upd \in [Providers -> Ages] /\ known \in [Providers -> Ages]
  /\ due \in Nat /\ rpc \in {"idle", "loop", "sent"} /\ rage \in 0..Timeout
  /\ rtodo \subseteq Providers /\ failed \subseteq Providers
  /\ found \subseteq [key : Providers, ip : IPs, storage : BOOLEAN]
  /\ lpc \in {"idle", "loop", "sent"} /\ faults \in 0..MaxFaults
  /\ ltodo \in [Providers -> IPs \cup {NoIP}] /\ items \in [Providers -> IPs \cup {NoIP}]

\* Fresh as LoadFresh means it: updated_at > NOW() - EndpointMaxAge.
Fresh(p) == ip[p] # NoIP /\ upd[p] < EndpointMaxAge

\* As long as no attempt to resolve a provider fails, the address in its row was
\* found by a run that began less than a TTL, a period and a run ago, although
\* ResolveEndpoints passes over rows by their updated_at (discovery.go:313),
\* works on a snapshot of them, and the backend need not store updated_at.
AddressIsRecent ==
  \A p \in Providers : ip[p] # NoIP /\ p \notin failed => known[p] < Renewal

\* An endpoint LoadFresh hands to check_proofs was found less than
\* EndpointMaxAge ago (endpoint.go:23-24): a result that was long under way, or
\* is applied without its updated_at, never makes an address look younger.
FreshIsRecent == \A p \in Providers : Fresh(p) => known[p] < EndpointMaxAge

\* The inductive form: an address is no older than the row's updated_at, and
\* younger than the TTL and the time since the last trigger, unless the run in
\* progress is replacing it, which takes at most a period and the run so far
\* longer.
Scheduled(p) == p \in rtodo \/ p \in Keys(found)
AgeInv ==
  /\ upd \in [Providers -> Nat] /\ known \in [Providers -> Nat]
  /\ due \in Nat /\ due <= Period
  /\ rage \in Nat /\ rage <= Timeout
  /\ rpc = "idle" => rtodo = {} /\ found = {}
  /\ rpc = "sent" => rtodo = {}
  /\ rpc # "idle" => due = rage /\ \A p \in Providers : rage <= upd[p]
  /\ \A p \in Providers : known[p] <= upd[p]
  /\ \A p \in Providers : ip[p] # NoIP /\ p \notin failed =>
       \/ known[p] < EndpointTTL + due
       \/ Scheduled(p) /\ known[p] < EndpointTTL + Period + rage

\* UpdateIPInfo works on a snapshot of the addresses, its result may arrive
\* after the provider has moved, and a reply may be about another address;
\* since GetProvidersIPs compares the address in ip_info with the column
\* (ipinfo.go:31), ip_info still catches up with an address that stays, except
\* where it is NULL, which GetProvidersIPs never selects.
InfoCatchesUp == <>[](\A p \in Providers : info[p] \in {ip[p], Null})
=============================================================================
