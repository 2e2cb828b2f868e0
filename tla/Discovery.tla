----------------------------- MODULE Discovery -----------------------------
(***************************************************************************)
(* Host discovery (common/discovery.go): sessions that ask a host fetcher   *)
(* for the hosts of each group of their configuration and merge them        *)
(* (updateSessionParams of combainer/client.go, common/hosts).  Fetchers    *)
(* keep the raw answers of their services in the TTL cache that all         *)
(* sessions of the combainer share, and parse them on every Fetch; the      *)
(* ZooKeeper fetcher strips ports in the cached list itself.                *)
(*                                                                         *)
(* An answer is a sequence of rows, and a row a sequence of fields.  The    *)
(* services are external: they answer anything, or fail; a body that cannot *)
(* be parsed is an answer without rows.  Hosts have at most one colon.      *)
(***************************************************************************)
EXTENDS Naturals, Sequences, FiniteSets, SequencesExt

CONSTANTS
  Sessions,  \* sessions that update their parameters
  Groups,    \* Groups: the groups of the configuration, in their order
  Geo,       \* the geos of the RTC fetcher
  Kinds,     \* the types of fetcher
  Answers,   \* Answers[kind]: what the service may answer
  MaxAsked   \* bound on the answers of the service

DiscoveryAssumption ==
  /\ MaxAsked \in Nat /\ Groups \in Seq(ToSet(Groups))
  /\ Kinds \subseteq {"tsv", "json", "rtc", "zk", "qloud"}
  /\ \A k \in Kinds : \A body \in Answers[k] :
       /\ body \in Seq(ToSet(body))
       /\ k = "zk" => \A i \in DOMAIN body :
                        body[i] \in Seq(ToSet(body[i])) /\ Len(body[i]) \in 1 .. 2

Failed == <<<<"failed">>>>
NotCached == <<<<"none">>>>

VARIABLES
  kind,    \* the type of the fetcher
  cache,   \* cache[u]: the cached answer for url u, NotCached if there is none
  asked,   \* number of answers of the service
  group,   \* group[s]: the index of the group that s is at
  geo,     \* geo[s]: the geos of that group that were not asked yet
  hosts,   \* hosts[s]: allHosts, from datacenters to lists
  listed   \* listed[s]: the rows that s was answered (a history variable)

vars == <<kind, cache, asked, group, geo, hosts, listed>>

\* The RTC fetcher asks one url per geo.
GeosOf(k) == IF k = "rtc" THEN Geo ELSE {"all"}
Urls(k) == ToSet(Groups) \X GeosOf(k)

NoHosts == [d \in {} |-> <<>>]

Init ==
  /\ kind \in Kinds
  /\ cache = [u \in Urls(kind) |-> NotCached]
  /\ asked = 0
  /\ group = [s \in Sessions |-> 1]
  /\ geo = [s \in Sessions |-> GeosOf(kind)]
  /\ hosts = [s \in Sessions |-> NoHosts]
  /\ listed = [s \in Sessions |-> <<>>]

-----------------------------------------------------------------------------
(* Answers and hosts *)

\* What s has at the indices in I, in their order.
Nth(I, n) == {i \in I : Cardinality({j \in I : j =< i}) = n}
Only(T) == CHOOSE i \in T : TRUE
Selected(s, I) == [n \in 1 .. Cardinality(I) |-> s[Only(Nth(I, n))]]

Blank == ""
Field(row, i, default) == IF row[i] = Blank THEN default ELSE row[i]

\* Rows of two fields, the datacenter and the fqdn.
parseTSV(body) ==
  LET rows == Selected(body, {i \in DOMAIN body : Len(body[i]) = 2})
  IN  [i \in DOMAIN rows |-> <<Field(rows[i], 1, "NoDC"), rows[i][2]>>]

\* Objects with an fqdn and, or not, a datacenter.
parseJSON(body) ==
  LET rows == Selected(body, {i \in DOMAIN body : body[i][1] # Blank})
  IN  [i \in DOMAIN rows |-> <<Field(rows[i], 2, "NoDC"), rows[i][1]>>]

\* The hostnames of one geo.
parseRTC(g, body) == [i \in DOMAIN body |-> <<g, body[i][1]>>]

\* Strip what follows the last colon; an address is a row of what is between
\* its colons.  (The fetcher writes the stripped name over the cached one.)
StripPort(list) == [i \in DOMAIN list |-> IF Len(list[i]) > 1 THEN Front(list[i]) ELSE list[i]]

\* Targets and what the second question answers for them: an error, another
\* type of record, or a name that begins with the datacenter.
parseQDNS(body) ==
  LET rows == Selected(body, {i \in DOMAIN body : body[i][2] \notin {"error", "other"}})
  IN  [i \in DOMAIN rows |-> <<Field(rows[i], 2, "NoDC"), rows[i][1]>>]

\* The map from datacenters to hosts.
Grouped(pairs) ==
  [d \in {p[1] : p \in ToSet(pairs)} |->
     LET mine == Selected(pairs, {i \in DOMAIN pairs : pairs[i][1] = d})
     IN  [i \in DOMAIN mine |-> mine[i][2]]]

\* What a Fetch of kind k makes of the answer for geo g; all of ZooKeeper's
\* hosts, be there none, are in one datacenter.
Parsed(k, g, body) ==
  CASE k = "tsv"   -> Grouped(parseTSV(body))
    [] k = "json"  -> Grouped(parseJSON(body))
    [] k = "rtc"   -> Grouped(parseRTC(g, body))
    [] k = "zk"    -> [d \in {"unk"} |-> body]
    [] k = "qloud" -> Grouped(parseQDNS(body))

Of(h, d) == IF d \in DOMAIN h THEN h[d] ELSE <<>>

\* A merge that replaces a datacenter that both have.
MergeOver(h, other) ==
  [d \in DOMAIN h \union DOMAIN other |-> IF d \in DOMAIN other THEN other[d] ELSE h[d]]

Merge(h, other) ==
  [d \in DOMAIN h \union DOMAIN other |-> Of(h, d) \o Of(other, d)]

-----------------------------------------------------------------------------
(* Fetch *)

\* The fetcher returns an error, which the cache does not keep: the service
\* failed, or no target of a DNS answer has a host.
Unusable(k, body) == body = Failed \/ (k = "qloud" /\ parseQDNS(body) = <<>>)

\* One url of the group: from the cache, which the ZooKeeper fetcher changes
\* in place, or from the service.  A failure leaves the url, and so the group
\* if it is its only one, without hosts.
Fetched(s, g, body) ==
  LET list == IF kind = "zk" /\ body # Failed THEN StripPort(body) ELSE body
  IN  /\ geo' = [geo EXCEPT ![s] = @ \ {g}]
      /\ IF Unusable(kind, body)
         THEN cache' = cache /\ UNCHANGED <<hosts, listed>>
         ELSE /\ cache' = [cache EXCEPT ![<<Groups[group[s]], g>>] = list]
              /\ hosts' = [hosts EXCEPT ![s] = Merge(@, Parsed(kind, g, list))]
              /\ listed' = [listed EXCEPT ![s] = Append(@, <<g, body>>)]

FetchCached(s) ==
  /\ group[s] =< Len(Groups)
  /\ \E g \in geo[s] :
       LET body == cache[<<Groups[group[s]], g>>]
       IN  body # NotCached /\ Fetched(s, g, body)
  /\ UNCHANGED <<kind, asked, group>>

FetchAsks(s) ==
  /\ group[s] =< Len(Groups) /\ asked < MaxAsked
  /\ asked' = asked + 1
  /\ \E g \in geo[s] :
       /\ cache[<<Groups[group[s]], g>>] = NotCached
       /\ \E body \in Answers[kind] \union {Failed} : Fetched(s, g, body)
  /\ UNCHANGED <<kind, group>>

\* The next group.
NextGroup(s) ==
  /\ group[s] =< Len(Groups) /\ geo[s] = {}
  /\ group' = [group EXCEPT ![s] = @ + 1]
  /\ geo' = [geo EXCEPT ![s] = GeosOf(kind)]
  /\ UNCHANGED <<kind, cache, asked, hosts, listed>>

\* The item expires and is fetched anew, or is deleted (see TTLCache).
Refresh(u) ==
  /\ cache[u] # NotCached /\ asked < MaxAsked
  /\ asked' = asked + 1
  /\ \E body \in {b \in Answers[kind] : ~Unusable(kind, b)} \union {NotCached} :
       cache' = [cache EXCEPT ![u] = body]
  /\ UNCHANGED <<kind, group, geo, hosts, listed>>

Next ==
  \/ \E s \in Sessions : FetchCached(s) \/ FetchAsks(s) \/ NextGroup(s)
  \/ \E u \in Urls(kind) : Refresh(u)

Spec == Init /\ [][Next]_vars

-----------------------------------------------------------------------------
(* Properties *)

Done(s) == group[s] > Len(Groups)

\* What a row of an answer of kind k for geo g stands for, with no order: no
\* host, or one in a datacenter.
Meaning(k, g, row) ==
  CASE k = "tsv"   -> IF Len(row) # 2 THEN {} ELSE
                         {<<IF row[1] = Blank THEN "NoDC" ELSE row[1], row[2]>>}
    [] k = "json"  -> IF row[1] = Blank THEN {} ELSE
                         {<<IF row[2] = Blank THEN "NoDC" ELSE row[2], row[1]>>}
    [] k = "rtc"   -> {<<g, row[1]>>}
    [] k = "zk"    -> {<<"unk", <<row[1]>>>>}
    [] k = "qloud" -> IF row[2] \in {"error", "other"} THEN {} ELSE
                         {<<IF row[2] = Blank THEN "NoDC" ELSE row[2], row[1]>>}

Rows(s) == UNION {{<<i, j>> : j \in DOMAIN listed[s][i][2]} : i \in DOMAIN listed[s]}
MeaningOf(s, r) == Meaning(kind, listed[s][r[1]][1], listed[s][r[1]][2][r[2]])

(***************************************************************************)
(* The hosts of a session are what the services listed for its groups: no   *)
(* row, group or geo is lost, invented, put in another datacenter or        *)
(* overwritten by another, whatever failed and whichever answers came from  *)
(* the cache, changed in place by another session or not (discovery.go:     *)
(* 173-277, 306-387, 410-454, 492-553, hostsfetcher.go:35-41,               *)
(* client.go:124-132).                                                      *)
(***************************************************************************)
HostsAsListed ==
  \A s \in Sessions :
    LET named == UNION {MeaningOf(s, r) : r \in Rows(s)}
    IN  \A d \in DOMAIN hosts[s] \union {p[1] : p \in named} :
          \A h \in ToSet(Of(hosts[s], d)) \union {p[2] : p \in named} :
            Cardinality({i \in DOMAIN Of(hosts[s], d) : Of(hosts[s], d)[i] = h})
              = Cardinality({r \in Rows(s) : <<d, h>> \in MeaningOf(s, r)})

=============================================================================
