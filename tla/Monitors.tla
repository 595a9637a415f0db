------------------------------ MODULE Monitors ------------------------------
(***************************************************************************)
(* The parts of Antfarm that watch the servers: the banner of              *)
(* useConnectionStatus ("connection"), the bar of the Termite pages        *)
(* ("bar") and the page of the cluster ("cluster").                        *)
(***************************************************************************)
EXTENDS Shell, FiniteSetsExt

CONSTANTS
    MaxOpenChecks,  \* bound on the checks of a server that are under way
    Snapshots       \* states of a cluster that /status can report

-----------------------------------------------------------------------------
(* useConnectionStatus and ConnectionStatusBanner. A check is "mount" (it has *)
(* the signal of the effect, and so no timeout), "aborted" (its effect has    *)
(* ended), "plain" (5 s timeout) or "old" (plain, for an earlier address).    *)

Servers == {"antfly", "termite"}
CheckKinds == {"mount", "aborted", "plain", "old"}
NoChecks == [c \in Servers \X CheckKinds |-> 0]

\* up (environment): "up", "down" or "hung", where nothing answers.
Checked(s, kind) ==
    [s EXCEPT !.open = [c \in DOMAIN @ |->
        IF c[2] = kind /\ c[1] \in s.products THEN @[c] + 1 ELSE @[c]]]

\* A product that is not in the build counts as connected.
ConnectionInit(products, up) ==
    Checked([status |-> [s \in Servers |-> IF s \in products THEN "checking" ELSE "connected"],
             products |-> products, up |-> up, dismissed |-> FALSE, open |-> NoChecks], "mount")

\* The effect that ends a dismissal.
Noticed(s) ==
    IF \A v \in Servers : s.status[v] = "connected" THEN [s EXCEPT !.dismissed = FALSE] ELSE s

DisconnectedServers(s) == {v \in s.products : s.status[v] = "disconnected"}
IsChecking(s) == \E v \in s.products : s.status[v] = "checking"
BannerShown(s) == ~s.dismissed /\ ~IsChecking(s) /\ DisconnectedServers(s) # {}

\* A check of server v ends: with the server's answer, its timeout, or as a
\* rejection, which isMountedRef, TRUE again by then, lets through.
CheckSettles(v, kind, ok) ==
    /\ screen = "connection" /\ st.open[<<v, kind>>] > 0
    /\ CASE kind = "aborted" -> ~ok
         [] kind = "old" -> TRUE
         [] kind = "mount" -> st.up[v] # "hung" /\ ok = (st.up[v] = "up")
         [] kind = "plain" -> ok = (st.up[v] = "up")
    /\ st' = Noticed([st EXCEPT !.open[<<v, kind>>] = @ - 1,
                                !.status[v] = IF ok THEN "connected" ELSE "disconnected"])
    /\ Quiet /\ UNCHANGED calls

\* retry of the banner.
Retry ==
    /\ User("connection") /\ BannerShown(st)
    /\ \A v \in st.products : st.open[<<v, "plain">>] < MaxOpenChecks
    /\ Only(Checked([st EXCEPT !.status = [v \in Servers |->
                        IF v \in st.products THEN "checking" ELSE @[v]]], "plain"))

HandleDismiss == User("connection") /\ BannerShown(st) /\ Only([st EXCEPT !.dismissed = TRUE])

\* Mutant of IntervalFires: the interval runs only when nothing is connected.
IntervalFiresBoth ==
    /\ screen = "connection" /\ DisconnectedServers(st) = Servers
    /\ \A v \in DisconnectedServers(st) : st.open[<<v, "plain">>] < MaxOpenChecks
    /\ st' = Checked(st, "plain")
    /\ Quiet /\ UNCHANGED calls

\* The interval: only what is disconnected is checked again.
IntervalFires ==
    /\ screen = "connection" /\ DisconnectedServers(st) # {}
    /\ \A v \in DisconnectedServers(st) : st.open[<<v, "plain">>] < MaxOpenChecks
    /\ st' = [st EXCEPT !.open = [c \in DOMAIN @ |->
                 IF c[2] = "plain" /\ c[1] \in DisconnectedServers(st) THEN @[c] + 1 ELSE @[c]]]
    /\ Quiet /\ UNCHANGED calls

\* A new termiteApiUrl: the checks of the effect are aborted, new ones start.
TermiteUrlChanges(up) ==
    /\ User("connection")
    /\ LET o == st.open
           left == [c \in DOMAIN o |->
               CASE c[2] = "mount" -> 0
                 [] c[2] = "aborted" -> o[c] + o[<<c[1], "mount">>]
                 [] c = <<"termite", "plain">> -> 0
                 [] c = <<"termite", "old">> -> o[c] + o[<<"termite", "plain">>]
                 [] OTHER -> o[c]]
       IN Only(Checked([st EXCEPT !.open = left, !.up["termite"] = up], "mount"))

\* A server starts, stops or hangs.
ServerChanges(v, up) ==
    /\ User("connection") /\ v \in st.products /\ st.up[v] # up
    /\ Only([st EXCEPT !.up[v] = up])

CheckAnswers(v) ==
    \E kind \in CheckKinds, ok \in BOOLEAN : CheckSettles(v, kind, ok)

ConnectionNext ==
    \/ \E v \in Servers : CheckAnswers(v)
    \/ Retry \/ HandleDismiss \/ IntervalFires
    \/ \E up \in {"up", "down", "hung"} :
          TermiteUrlChanges(up) \/ \E v \in Servers : ServerChanges(v, up)

-----------------------------------------------------------------------------
(* BackendInfoBar. A fetch is of an address and has the effect's signal or not. *)

\* stale (history): a fetch of an earlier address was not aborted.
BarInit(url) ==
    [url |-> url, status |-> "checking", runtime |-> "", version |-> "", stale |-> FALSE]

InfoCall(url, signal) == Call("info", [url |-> url, signal |-> signal, aborted |-> FALSE])

\* What fetchInfo brings: which of the two answers are ok. A rejection, of an
\* aborted fetch too, clears the info.
FetchInfo(k, models, version, rejected) ==
    /\ screen = "bar"
    /\ CallEnds(k, "info", <<>>)
    /\ calls[k].of.aborted => rejected
    /\ LET u == calls[k].of.url
       IN st' = IF rejected
                THEN [st EXCEPT !.status = "disconnected", !.runtime = "", !.version = ""]
                ELSE [st EXCEPT !.runtime = IF models THEN u ELSE @,
                                !.version = IF version THEN u ELSE @,
                                !.status = IF models THEN "connected" ELSE "disconnected"]

\* "Retry", and the interval while disconnected.
FetchAgain ==
    /\ screen = "bar" /\ st.status = "disconnected" /\ Len(calls) < MaxCalls
    /\ calls' = Append(calls, InfoCall(st.url, FALSE))
    /\ Quiet /\ UNCHANGED st

BarUrlChanges(u) ==
    /\ User("bar") /\ u # st.url /\ Len(calls) < MaxCalls
    /\ calls' = Append([k \in DOMAIN calls |->
                          [calls[k] EXCEPT !.of.aborted = ~calls[k].done /\ calls[k].of.signal]],
                       InfoCall(u, TRUE))
    /\ st' = [st EXCEPT !.url = u, !.status = "checking",
                        !.stale = @ \/ \E k \in Open("info") : ~calls[k].of.signal]

\* The badges of the bar, by the address they came from.
Badges(s) == IF s.status = "connected" THEN <<s.runtime, s.version>> ELSE <<"", "">>

InfoAnswers ==
    \E k \in DOMAIN calls : \E m, v, r \in BOOLEAN : FetchInfo(k, m, v, r)

BarNext == InfoAnswers \/ FetchAgain \/ \E u \in Urls : BarUrlChanges(u)

-----------------------------------------------------------------------------
(* useClusterStatus and ClusterPage. A snapshot has the nodes and, for each  *)
(* shard, its table, peers, leader and phase.                                *)

NoCluster == [stores |-> {}, shards |-> <<>>]

\* late (history): an answer came after that of a later call.
ClusterInit == [data |-> NoCluster, of |-> 0, loading |-> TRUE, error |-> FALSE,
                every |-> 10, late |-> FALSE]

\* getShardRole
GetShardRole(shard, store) ==
    CASE shard.phase # "" -> shard.phase
      [] shard.phase = "" /\ store \notin shard.peers -> "unassigned"
      [] OTHER -> IF shard.leader = store THEN "leader" ELSE "follower"

\* buildTableRows: the shards of each table, the tables in order.
BuildTableRows(shards) ==
    LET tables == {shards[i].table : i \in DOMAIN shards}
    IN [t \in tables |-> {i \in DOMAIN shards : shards[i].table = t}]

\* getShardsForCell, as the blocks that are drawn.
GetShardsForCell(shards, row, store) ==
    {[shard |-> i, role |-> GetShardRole(shards[i], store)] :
        i \in {j \in row : store \in shards[j].peers}}

GetStoreShardCount(shards, store) == Cardinality({i \in DOMAIN shards : store \in shards[i].peers})

\* The matrix: a cell for each table and node.
Matrix(d) ==
    LET rows == BuildTableRows(d.shards)
    IN [t \in DOMAIN rows |-> [n \in d.stores |-> GetShardsForCell(d.shards, rows[t], n)]]

\* What the page draws.
ClusterPanels(s) ==
    IF s.error /\ s.data.stores = {} THEN {"failed"}
    ELSE (IF s.loading /\ s.data.stores = {} THEN {"spinner"} ELSE {})
         \cup (IF s.data.stores # {} THEN {"nodes"} ELSE {})
         \cup (IF s.data.shards # <<>> THEN {"matrix"}
               ELSE IF ~s.loading /\ s.data.stores # {} THEN {"empty"} ELSE {})

\* fetchStatus ends.
FetchStatus(k) ==
    /\ screen = "cluster"
    /\ CallEnds(k, "cluster", <<>>)
    /\ \/ \E d \in Snapshots :
             st' = [st EXCEPT !.data = d, !.of = k, !.loading = FALSE, !.error = FALSE,
                              !.late = st.of > k]
       \/ st' = [st EXCEPT !.loading = FALSE, !.error = TRUE]

\* refresh: "Retry", or the button that is disabled while loading.
RefreshCluster ==
    /\ User("cluster") /\ (~st.loading \/ ClusterPanels(st) = {"failed"})
    /\ Start("cluster", [by |-> "user"])
    /\ st' = [st EXCEPT !.loading = TRUE]

\* The interval fetches without a spinner, whatever is under way.
AutoRefresh ==
    /\ screen = "cluster" /\ st.every # 0
    /\ Start("cluster", [by |-> "interval"])
    /\ Quiet /\ UNCHANGED st

SetRefreshInterval(n) ==
    User("cluster") /\ ClusterPanels(st) # {"failed"} /\ n # st.every /\ Only([st EXCEPT !.every = n])

ClusterNext ==
    \/ \E k \in DOMAIN calls : FetchStatus(k)
    \/ RefreshCluster \/ AutoRefresh
    \/ \E n \in {0, 5, 10, 30} : SetRefreshInterval(n)

=============================================================================
