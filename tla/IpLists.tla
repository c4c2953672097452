------------------------------ MODULE IpLists ------------------------------
(***************************************************************************)
(* The whitelist and the blocklist: their tables (sqlite_manager.py), the  *)
(* endpoints (security_api.py), the buttons on the page of an address      *)
(* (IPActions) and the card of the security page (WhitelistCard), in tabs  *)
(* that each work from the answer they had last.                           *)
(***************************************************************************)
EXTENDS Naturals, FiniteSets, FiniteSetsExt

CONSTANTS
  Nothing,
  Tabs,
  Addresses,      \* an address is also the network that holds nothing else
  Covers,         \* by network: its addresses
  MaxId,          \* bound: entries of a list at a time
  MaxAsks         \* bound: changes asked for

VARIABLES
  list,           \* "white" and "black": the rows [id, cidr] of each table
  page,           \* by tab: the address whose page it shows, Nothing for the security page
  seen,           \* by tab: the rows it was last told of, by list
  request,        \* by tab: Nothing, or the change it has asked for
  asks

listVars == <<list, page, seen, request, asks>>

Lists == {"white", "black"}
Networks == DOMAIN Covers
Entries == [id : 1 .. MaxId, cidr : Networks]

\* No row is NULL, and an address is the network of itself.
ASSUME NetworksHold ==
  /\ MaxId \in Nat /\ Nothing \notin Entries /\ Nothing \notin Addresses
  /\ Addresses \subseteq Networks
  /\ \A n \in Networks : IsFiniteSet(Covers[n])

ListsTypeOK ==
  /\ list \in [Lists -> SUBSET Entries] /\ page \in [Tabs -> Addresses \cup {Nothing}]
  /\ seen \in [Tabs -> [Lists -> SUBSET Entries]]
  /\ \A l \in Lists : \A e, g \in list[l] : e.id = g.id => e = g

ListsInit ==
  /\ list = [l \in Lists |-> {}]
  /\ page = [t \in Tabs |-> Nothing]
  /\ seen = [t \in Tabs |-> list]
  /\ request = [t \in Tabs |-> Nothing] /\ asks = 0

-----------------------------------------------------------------------------
(* get_ip_status.                                                          *)

\* The first entry by id whose network holds the address.
MatchCidr(ip, entries) ==
  LET hits == {e \in entries : ip \in Covers[e.cidr]}
  IN  IF hits = {} THEN Nothing ELSE CHOOSE e \in hits : \A g \in hits : e.id <= g.id

\* Mutant: every entry can be removed from the page of an address it holds.
IsIndividual_Always(cidr) == cidr \in Networks

\* A network of one address.
IsIndividual(cidr) == Cardinality(Covers[cidr]) = 1

Listed(ip, entries) == MatchCidr(ip, entries) # Nothing

-----------------------------------------------------------------------------
(* The tabs.                                                               *)

Visit(t, ip) ==
  /\ request[t] = Nothing
  /\ page' = [page EXCEPT ![t] = ip]
  /\ seen' = [seen EXCEPT ![t] = list]
  /\ UNCHANGED <<list, request, asks>>

Ask(t, r) ==
  /\ request[t] = Nothing /\ asks < MaxAsks
  /\ request' = [request EXCEPT ![t] = r]
  /\ asks' = asks + 1
  /\ UNCHANGED <<list, page, seen>>

\* Block IP and Whitelist IP, offered while no entry holds the address.
Block(t, l) ==
  /\ page[t] # Nothing /\ ~Listed(page[t], seen[t][l])
  /\ Ask(t, [op |-> "add", list |-> l, cidr |-> page[t]])

\* Remove Block and Remove Whitelist, offered for an entry that is the address alone.
Unblock(t, l) ==
  LET e == MatchCidr(page[t], seen[t][l])
  IN  /\ page[t] # Nothing /\ e # Nothing /\ IsIndividual(e.cidr)
      /\ Ask(t, [op |-> "remove", list |-> l, entry |-> e])

\* The card of the security page: any network in, any entry out.
AddNetwork(t, cidr) ==
  page[t] = Nothing /\ Ask(t, [op |-> "add", list |-> "white", cidr |-> cidr])
RemoveEntry(t, e) ==
  /\ page[t] = Nothing /\ e \in seen[t]["white"]
  /\ Ask(t, [op |-> "remove", list |-> "white", entry |-> e])

-----------------------------------------------------------------------------
(* The tables.                                                             *)

\* Mutant: the id is the number of the row.
Add_Counts(t) ==
  LET r == request[t]
      rows == list[r.list]
      id == 1 + Cardinality(rows)
  IN  /\ r # Nothing /\ r.op = "add"
      /\ id <= MaxId
      /\ list' = IF \E e \in rows : e.cidr = r.cidr THEN list
                 ELSE [list EXCEPT ![r.list] = rows \cup {[id |-> id, cidr |-> r.cidr]}]
      /\ request' = [request EXCEPT ![t] = Nothing]
      /\ UNCHANGED <<page, seen, asks>>

\* INSERT OR IGNORE: a network that is there stays as it is.  A new row has the id after
\* the largest there is, which may have been another's.
Add(t) ==
  LET r == request[t]
      rows == list[r.list]
      id == 1 + Max({0} \cup {e.id : e \in rows})
  IN  /\ r # Nothing /\ r.op = "add"
      /\ id <= MaxId
      /\ list' = IF \E e \in rows : e.cidr = r.cidr THEN list
                 ELSE [list EXCEPT ![r.list] = rows \cup {[id |-> id, cidr |-> r.cidr]}]
      /\ request' = [request EXCEPT ![t] = Nothing]
      /\ UNCHANGED <<page, seen, asks>>

\* DELETE by id, whatever has that id now.
Remove(t) ==
  LET r == request[t]
  IN  /\ r # Nothing /\ r.op = "remove"
      /\ list' = [list EXCEPT ![r.list] = {e \in @ : e.id # r.entry.id}]
      /\ request' = [request EXCEPT ![t] = Nothing]
      /\ UNCHANGED <<page, seen, asks>>

\* The answers the tab's queries have after a change are asked for again, or after a while.
Refresh(t) ==
  /\ seen' = [seen EXCEPT ![t] = list]
  /\ UNCHANGED <<list, page, request, asks>>

ListsNext ==
  \E t \in Tabs :
    \/ \E ip \in Addresses \cup {Nothing} : Visit(t, ip)
    \/ \E l \in Lists : Block(t, l) \/ Unblock(t, l)
    \/ \E cidr \in Networks : AddNetwork(t, cidr)
    \/ \E e \in Entries : RemoveEntry(t, e)
    \/ Add(t) \/ Remove(t) \/ Refresh(t)

ListsSpec == ListsInit /\ [][ListsNext]_listVars

-----------------------------------------------------------------------------
\* Removing a block or a whitelist entry on the page of an address changes the listing of
\* another address in one case only: the entry the page showed is gone, and the id, which is
\* all that is sent, belongs to an entry made since.  An entry for a network is otherwise
\* taken away only where the whole of it is seen.
UnblockIsLocal ==
  [][\A t \in Tabs :
       (request[t] # Nothing /\ request'[t] = Nothing /\ request[t].op = "remove" /\ page[t] # Nothing)
       => LET rows == list[request[t].list]
          IN  \/ \A a \in Addresses \ {page[t]}, l \in Lists : Listed(a, list'[l]) = Listed(a, list[l])
              \/ /\ request[t].entry \notin rows
                 /\ \E e \in rows : e.id = request[t].entry.id]_listVars
=============================================================================
