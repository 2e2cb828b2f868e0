--------------------------- MODULE JugglerChecks ---------------------------
(***************************************************************************)
(* The checks that the juggler sender keeps at the juggler API              *)
(* (senders/juggler/api.go, Send of juggler.go): a Send reads the checks of *)
(* its host through the TTL cache of its process, brings the ones of its    *)
(* events in line with its configuration, writes the changed ones back      *)
(* whole, and forgets the cached copy.  Sends run concurrently, in one      *)
(* process and in several, and nothing but the copies they read relates     *)
(* them.                                                                    *)
(*                                                                         *)
(* There is one js.Host.  A foreground fetch is one step: an item that is   *)
(* deleted while it is fetched is known only to the calls that hold it (see *)
(* TTLCache), as here.  At most one background refresh runs per process.    *)
(* Left out: the plugin and the marshalling of a fixed configuration.       *)
(***************************************************************************)
EXTENDS Naturals, Sequences, FiniteSets, SequencesExt

CONSTANTS
  Senders,      \* the senders, each one Send at a time
  Processes,    \* the juggler sender processes
  Triggers,     \* Triggers[s]: the events of a Send of s, in their order
  Conf,         \* the configuration of the checks
  Initial,      \* the checks that the API may have at the start
  JHosts,       \* number of API hosts
  MaxGarbled    \* bound on the answers of the API that are not JSON

TriggersOf(s) == ToSet(Triggers[s])
Services == UNION {{t.service : t \in TriggersOf(s)} : s \in Senders}

\* An absent check, and the zero value that a new one is made from.
NoCheck == [service |-> "none"]
NewCheck ==
  [service |-> "", ttl |-> 0, aggregator |-> "", notifications |-> {}, flaps |-> "none",
   tags |-> {}, description |-> "", namespace |-> "", children |-> {}]
NoCopy == <<>>

IsCheck(c) == c = NoCheck \/ DOMAIN c = DOMAIN NewCheck

JugglerChecksAssumption ==
  /\ IsFiniteSet(Senders) /\ {JHosts, MaxGarbled} \subseteq Nat
  /\ \A s \in Senders : Triggers[s] \in Seq(TriggersOf(s))
  /\ \A checks \in Initial : DOMAIN checks = Services /\ \A c \in Services : IsCheck(checks[c])

NoneTried == [c \in Services |-> 0]

VARIABLES
  processOf,  \* processOf[s]: the process of sender s
  server,     \* server[c]: the check of service c at the API
  cache,      \* cache[p]: the cached checks, NoCopy if there are none
  expired,    \* expired[p]: the cached item is past its deadline
  refresh,    \* refresh[p]: the background fetch, if there is one: NoCopy, or what it has read
  garbled,    \* number of answers that were not JSON
  pc,         \* pc[s]: where the Send of s is
  copy,       \* copy[s]: hostChecks of s
  todo,       \* todo[s]: the modified checks that are not written yet
  tried,      \* tried[s][c]: the API hosts that updateCheck has tried for c
  dirty       \* dirty[s]: cleanCache

apiVars == <<server, garbled>>
cacheVars == <<cache, expired, refresh>>
sendVars == <<copy, todo, tried, dirty>>
vars == <<processOf, server, cache, expired, refresh, garbled, pc, copy, todo, tried, dirty>>

Init ==
  /\ processOf \in [Senders -> Processes]
  /\ server \in Initial
  /\ cache = [p \in Processes |-> NoCopy]
  /\ expired = [p \in Processes |-> FALSE]
  /\ refresh = [p \in Processes |-> <<>>]
  /\ garbled = 0
  /\ pc = [s \in Senders |-> "idle"]
  /\ copy = [s \in Senders |-> NoCopy]
  /\ todo = [s \in Senders |-> {}]
  /\ tried = [s \in Senders |-> NoneTried]
  /\ dirty = [s \in Senders |-> FALSE]

-----------------------------------------------------------------------------
(* One check and the configuration.                                         *)

ensureTTL(c) == [c EXCEPT !.ttl = IF Conf.ttl = 0 THEN 900 ELSE Conf.ttl]

\* The name and the kwargs, compared as JSON.
ensureAggregator(c) == [c EXCEPT !.aggregator = Conf.aggregator]

\* Notifications go before Method; the API may hold them in another order.
ensureNotifications(c) ==
  [c EXCEPT !.notifications = IF Conf.notifications # {} THEN Conf.notifications
                              ELSE Conf.method \intersect {"sms", "golem"}]

\* FlapsByChecks is looked up by the service that the check came with.
ensureFlap(c) ==
  [c EXCEPT !.flaps = IF c.service \in DOMAIN Conf.flapsByChecks
                      THEN Conf.flapsByChecks[c.service] ELSE Conf.flaps]

\* Tags are only ever added.
ensureTags(c) == [c EXCEPT !.tags = @ \union (IF Conf.tags = {} THEN {"combaine"} ELSE Conf.tags)]

ensureDescription(c) ==
  [c EXCEPT !.description = IF Conf.description = "" THEN @ ELSE Conf.description]

ensureNamespace(c) ==
  [c EXCEPT !.namespace = IF Conf.namespace = "" THEN "combaine" ELSE Conf.namespace]

Settings(c) ==
  ensureNamespace(ensureDescription(ensureTags(ensureFlap(
    ensureNotifications(ensureAggregator(ensureTTL(c)))))))

\* "Ensure check only once": the first event of each service.
Ensuring(s) ==
  {Triggers[s][i] : i \in {i \in DOMAIN Triggers[s] :
     \A j \in 1 .. i - 1 : Triggers[s][j].service # Triggers[s][i].service}}

\* The check of event t: the settings, and the event's host as a child.
Ensured(c, t) ==
  [Settings(IF c = NoCheck THEN NewCheck ELSE c)
     EXCEPT !.children = @ \union {t.host}, !.service = t.service]

-----------------------------------------------------------------------------
(* Send.                                                                    *)

Start(s) ==
  /\ pc[s] \in {"idle", "sent", "failed"}
  /\ pc' = [pc EXCEPT ![s] = "get"]
  /\ UNCHANGED <<processOf, apiVars, cacheVars, sendVars>>

\* getCheck with a cached item; one past its deadline is refreshed in the
\* background.
UseCached(s) ==
  LET p == processOf[s]
  IN  /\ pc[s] = "get" /\ cache[p] # NoCopy
      /\ copy' = [copy EXCEPT ![s] = cache[p]]
      /\ refresh' = [refresh EXCEPT ![p] = IF expired[p] /\ @ = <<>> THEN <<NoCopy>> ELSE @]
      /\ pc' = [pc EXCEPT ![s] = "ensure"]
      /\ UNCHANGED <<processOf, apiVars, cache, expired, todo, tried, dirty>>

\* getCheck without one: some API host answers; an answer that is not JSON is
\* cached like any other and read as no checks at all.
Fetch(s) ==
  LET p == processOf[s]
  IN  /\ pc[s] = "get" /\ cache[p] = NoCopy
      /\ \/ cache' = [cache EXCEPT ![p] = server] /\ UNCHANGED garbled
         \/ /\ garbled < MaxGarbled /\ garbled' = garbled + 1
            /\ cache' = [cache EXCEPT ![p] = [c \in Services |-> NoCheck]]
      /\ copy' = [copy EXCEPT ![s] = cache'[p]]
      /\ expired' = [expired EXCEPT ![p] = FALSE]
      /\ pc' = [pc EXCEPT ![s] = "ensure"]
      /\ UNCHANGED <<processOf, server, refresh, todo, tried, dirty>>

\* No API host answers: Send returns, and the cache keeps no error.
FetchFails(s) ==
  /\ pc[s] = "get" /\ cache[processOf[s]] = NoCopy
  /\ pc' = [pc EXCEPT ![s] = "failed"]
  /\ UNCHANGED <<processOf, apiVars, cacheVars, sendVars>>

ensureCheck(s) ==
  /\ pc[s] = "ensure"
  /\ LET ensured == [c \in Services |->
                       IF \E t \in Ensuring(s) : t.service = c
                       THEN Ensured(copy[s][c], CHOOSE t \in Ensuring(s) : t.service = c)
                       ELSE copy[s][c]]
     IN  /\ copy' = [copy EXCEPT ![s] = ensured]
         /\ todo' = [todo EXCEPT ![s] = {c \in Services : ensured[c] # copy[s][c]}]
  /\ pc' = [pc EXCEPT ![s] = "update"]
  /\ UNCHANGED <<processOf, apiVars, cacheVars, tried, dirty>>

\* The API takes the check as it is posted.
Posted(s, c) == server' = [server EXCEPT ![c] = copy[s][c]]

\* updateCheck that takes the last API host's refusal for an answer.
updateCheckAnyhow(s) ==
  /\ pc[s] = "update"
  /\ \E c \in todo[s] :
       /\ dirty' = [dirty EXCEPT ![s] = TRUE]
       /\ \/ Posted(s, c) \/ UNCHANGED server
       /\ todo' = [todo EXCEPT ![s] = @ \ {c}]
       /\ tried' = [tried EXCEPT ![s] = NoneTried]
  /\ UNCHANGED <<processOf, garbled, cacheVars, pc, copy>>

\* One POST of updateCheck: it is answered; or it fails, with or without the
\* write done, and the next API host is tried; after the last one, or when
\* the context ends, ensureCheck returns the error.
updateCheck(s) ==
  /\ pc[s] = "update"
  /\ \E c \in todo[s] :
       /\ \A d \in todo[s] \ {c} : tried[s][d] = 0
       /\ dirty' = [dirty EXCEPT ![s] = TRUE]
       /\ \/ /\ Posted(s, c)
             /\ todo' = [todo EXCEPT ![s] = @ \ {c}]
             /\ tried' = [tried EXCEPT ![s] = NoneTried]
             /\ UNCHANGED pc
          \/ /\ Posted(s, c) \/ UNCHANGED server
             /\ tried[s][c] + 1 < JHosts
             /\ tried' = [tried EXCEPT ![s][c] = @ + 1]
             /\ UNCHANGED <<pc, todo>>
          \/ /\ Posted(s, c) \/ UNCHANGED server
             /\ pc' = [pc EXCEPT ![s] = "error"]
             /\ UNCHANGED <<todo, tried>>
  /\ UNCHANGED <<processOf, garbled, cacheVars, copy>>

\* The deferred Delete, and ensureCheck returns; its variables are gone.
CleanCache(s) ==
  /\ \/ pc[s] = "update" /\ todo[s] = {}
     \/ pc[s] = "error"
  /\ cache' = [cache EXCEPT ![processOf[s]] = IF dirty[s] THEN NoCopy ELSE @]
  /\ pc' = [pc EXCEPT ![s] = IF @ = "error" THEN "failed" ELSE "sent"]
  /\ copy' = [copy EXCEPT ![s] = NoCopy]
  /\ todo' = [todo EXCEPT ![s] = {}]
  /\ tried' = [tried EXCEPT ![s] = NoneTried]
  /\ dirty' = [dirty EXCEPT ![s] = FALSE]
  /\ UNCHANGED <<processOf, apiVars, expired, refresh>>

-----------------------------------------------------------------------------
(* The cache.                                                               *)

Expire(p) ==
  /\ cache[p] # NoCopy /\ ~expired[p]
  /\ expired' = [expired EXCEPT ![p] = TRUE]
  /\ UNCHANGED <<processOf, apiVars, cache, refresh, pc, sendVars>>

RefreshReads(p) ==
  /\ refresh[p] = <<NoCopy>>
  /\ refresh' = [refresh EXCEPT ![p] = <<server>>]
  /\ UNCHANGED <<processOf, apiVars, cache, expired, pc, sendVars>>

RefreshFails(p) ==
  /\ refresh[p] = <<NoCopy>>
  /\ refresh' = [refresh EXCEPT ![p] = <<>>]
  /\ UNCHANGED <<processOf, apiVars, cache, expired, pc, sendVars>>

\* A refresh that drops what it has read.
RefreshDrops(p) ==
  /\ refresh[p] \notin {<<>>, <<NoCopy>>}
  /\ refresh' = [refresh EXCEPT ![p] = <<>>]
  /\ UNCHANGED <<processOf, apiVars, cache, expired, pc, sendVars>>

\* The store is replaced, whatever was deleted from it in the meantime.
RefreshStores(p) ==
  /\ refresh[p] \notin {<<>>, <<NoCopy>>}
  /\ cache' = [cache EXCEPT ![p] = refresh[p][1]]
  /\ expired' = [expired EXCEPT ![p] = FALSE]
  /\ refresh' = [refresh EXCEPT ![p] = <<>>]
  /\ UNCHANGED <<processOf, apiVars, pc, sendVars>>

SendStep(s) ==
  UseCached(s) \/ Fetch(s) \/ FetchFails(s) \/ ensureCheck(s) \/ updateCheck(s) \/ CleanCache(s)

Next ==
  \/ \E s \in Senders : Start(s) \/ SendStep(s)
  \/ \E p \in Processes : Expire(p) \/ RefreshReads(p) \/ RefreshFails(p) \/ RefreshStores(p)

Spec == Init /\ [][Next]_vars

\* A Send goes on, deadlines pass, and the API does not fail every refresh.
Fairness ==
  /\ \A s \in Senders : WF_vars(SendStep(s))
  /\ \A p \in Processes :
       WF_vars(Expire(p)) /\ SF_vars(RefreshReads(p)) /\ WF_vars(RefreshStores(p))

FairSpec == Spec /\ Fairness

-----------------------------------------------------------------------------
(* Properties *)

(***************************************************************************)
(* When Send goes on to the events, the API has a check for each of them,   *)
(* whatever copy it read, whoever wrote since, and whichever of the POSTs   *)
(* failed on the way (api.go:195-280, juggler.go:72-79).                    *)
(***************************************************************************)
EventsHaveChecks ==
  \A s \in Senders : pc[s] = "sent" => \A t \in TriggersOf(s) : server[t.service] # NoCheck

InSync(s) ==
  \A t \in TriggersOf(s) :
    LET c == server[t.service]
    IN  c # NoCheck /\ t.host \in c.children /\ Settings(c) = c

(***************************************************************************)
(* Sends overwrite each other's children and settings (whole checks are     *)
(* written from copies that may be stale), but the damage is repaired: a    *)
(* sender that is left alone and keeps getting through has its checks in    *)
(* sync for good, and stops updating them.  That takes a check twice when   *)
(* FlapsByChecks names it (a new check has no Service yet) and a refresh    *)
(* when the cached copy hides the damage (api.go:111-280, 431-459).         *)
(***************************************************************************)
Heals ==
  \A s \in Senders :
    /\ <>[](\A q \in Senders \ {s} : pc[q] \in {"idle", "sent", "failed"})
    /\ []<>(pc[s] = "sent") /\ []<>(pc[s] # "sent")
    => <>[](InSync(s) /\ todo[s] = {})

=============================================================================
