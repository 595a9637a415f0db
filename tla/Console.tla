------------------------------ MODULE Console ------------------------------
(***************************************************************************)
(* Antfarm around its playgrounds: the session, the frame, the monitors of *)
(* the servers and the pages that administer them.                         *)
(***************************************************************************)
EXTENDS Monitors, TableTools

\* Who may be signed in when the frame is shown.
Everything == [resource |-> "*", kind |-> "*", type |-> "admin"]
OneTable == [resource |-> "t", kind |-> "table", type |-> "admin"]
Auths == [enabled : {"on", "off"}, user : Names, perms : SUBSET {Everything, OneTable}]

\* A tool on the page of the first table.
ToolInit(s) ==
    LET t == CHOOSE n \in TableNames : TRUE
    IN CASE s = "schema" -> SchemaInit(t) /\ calls = <<>>
         [] s = "insert" -> st = InsertInit(t) /\ calls = <<Call("key", [table |-> t])>>
         [] s = "assistant" -> st = AssistantInit(t) /\ calls = <<>>

ConsoleInit(s) ==
    CASE s = "session" ->
           /\ \E stored \in {<<>>} \cup {<<n>> : n \in Names}, at \in {"app", "login"} :
                 st = SessionInit(stored, at)
           /\ calls = <<Call("status", [url |-> DefaultUrl])>>
      [] s = "shell" ->
           /\ \E b \in Builds, p \in AllPaths, auth \in Auths, table \in BOOLEAN :
                 /\ p \in Routed(b) \cup Elsewhere
                 /\ st = ShellInit(b, p, auth, table)
           /\ calls = <<>>
      [] s = "connection" ->
           /\ \E ps \in SUBSET Servers \ {{}}, up \in [Servers -> {"up", "down", "hung"}] :
                 st = ConnectionInit(ps, up)
           /\ calls = <<>>
      [] s = "bar" -> st = BarInit(DefaultUrl) /\ calls = <<InfoCall(DefaultUrl, TRUE)>>
      [] s = "cluster" -> st = ClusterInit /\ calls = <<Call("cluster", [by |-> "mount"])>>
      [] s = "secrets" ->
           /\ \E swarm \in BOOLEAN, env \in SUBSET Common : st = SecretsInit(swarm, env)
           /\ calls = SecretsCalls
      [] s = "users" ->
           /\ \E server \in {[u \in {Admin} |-> {}], [u \in Accounts |-> Perms]} : st = UsersInit(server)
           /\ calls = <<Call("users", <<>>)>>
      [] s = "tables" -> st = TablesInit /\ calls = <<Call("list", [filter |-> "", mode |-> "prefix"])>>
      [] s = "details" ->
           LET t == CHOOSE n \in TableNames : TRUE
           IN /\ \E section \in {"indexes", "schema", "semantic"} : st = DetailsInit(t, section)
              /\ calls = DetailsCalls(t)
      [] s \in {"schema", "insert", "assistant"} -> ToolInit(s)

Init == screen \in Screens /\ events = 0 /\ ConsoleInit(screen)

\* Steps of the servers and the timers: every call ends, every timer fires.
Steps ==
    \/ \E k \in DOMAIN calls, ok \in BOOLEAN :
          \/ screen = "session" /\ (CheckAuthEnabled(k, ok) \/ FetchCurrentUser(k, ok))
          \/ screen = "shell" /\ SemanticSearch(k, ok)
          \/ screen = "cluster" /\ FetchStatus(k)
          \/ screen = "secrets" /\ (CheckMode(k, ok) \/ FetchSecrets(k, ok) \/ SecretStored(k, ok)
                                     \/ SecretDeleted(k, ok))
          \/ screen = "users" /\ (FetchUsers(k, ok) \/ FetchPermissions(k, ok) \/ UserAnswers(k, ok))
          \/ screen = "tables" /\ (TablesArrive(k, ok) \/ TableDropped(k, ok))
          \/ screen = "assistant" /\ QueryGenerated(k, ok)
    \/ screen = "bar" /\ InfoAnswers
    \/ screen = "details" /\ DetailsAnswers
    \/ screen = "schema" /\ SchemaAnswers
    \/ screen = "insert" /\ InsertAnswers
    \/ SearchTimer \/ DropTimer

Next ==
    \/ screen = "session" /\ SessionNext
    \/ screen = "shell" /\ ShellNext
    \/ screen = "connection" /\ ConnectionNext
    \/ screen = "bar" /\ BarNext
    \/ screen = "cluster" /\ ClusterNext
    \/ screen = "secrets" /\ SecretsNext
    \/ screen = "users" /\ UsersNext
    \/ screen = "tables" /\ TablesNext
    \/ screen = "details" /\ DetailsNext
    \/ screen = "schema" /\ SchemaNext
    \/ screen = "insert" /\ InsertNext
    \/ screen = "assistant" /\ AssistantNext

\* A call ends and a timer fires; each server's checks end, and the interval of a
\* disconnected one fires.
Fairness ==
    /\ WF_vars(Steps) /\ WF_vars(IntervalFires)
    /\ \A v \in Servers : WF_vars(CheckAnswers(v))

Spec == Init /\ [][Next]_vars /\ Fairness

-----------------------------------------------------------------------------
(* Properties *)

\* The shared state has its type; only follow-up calls exceed the bound.
TypeOK ==
    /\ screen \in Screens /\ events \in 0 .. MaxEvents[screen]
    /\ \A k \in DOMAIN calls : calls[k].done \in BOOLEAN
    /\ screen = "connection" =>
          /\ st.status \in [Servers -> {"connected", "disconnected", "checking"}]
          /\ \A c \in DOMAIN st.open : st.open[c] \in Nat

\* Nothing is under way.
AllDone == \A k \in DOMAIN calls : calls[k].done

\* The app is shown to a user only after the check of the server in use: one
\* authenticated call is under way at a time, the login form is not answered
\* for another user, and the credentials kept are those of the user shown.
AppShownToUser ==
    screen = "session" =>
        /\ Cardinality(Open("status") \cup Open("me")) <= 1
        /\ st.loading <=> Open("status") \cup Open("me") # {}
        /\ View(st) = "app" /\ st.enabled = "on" => st.stored = <<st.user>>
        /\ View(st) = "app" => \E k \in DOMAIN calls : calls[k].kind = "status" /\ calls[k].of.url = st.url

\* The sidebar follows the route: it is the one of the product that owns the
\* page, every link in it leads to a page of this build and not to a redirect,
\* and at most one entry is active.
SidebarOfPage ==
    screen = "shell" =>
        /\ st.path \in PagesOf(st.product)
        /\ SidebarLinks(st) \subseteq Routed(st.build)
        /\ Cardinality(ActiveEntries(st)) <= 1

\* The closest matches are those of the text in the palette once nothing is
\* under way, unless a search was answered after its text was gone: it is not
\* cancelled.
PaletteHonest ==
    screen = "shell" /\ ClosestMatches(st) /\ AllDone /\ ~st.pal.timer /\ ~st.pal.stale =>
        st.pal.results = <<st.pal.query>>

\* "checking" hides the banner: it is only said while a check that will end it
\* is under way; and a dismissal does not outlast the outage.
CheckingAccounted ==
    screen = "connection" =>
        /\ \A v \in Servers : st.status[v] = "checking" =>
              \E kind \in CheckKinds : st.open[<<v, kind>>] > 0
        /\ st.dismissed => \E v \in Servers : st.status[v] # "connected"

\* The badges are of the Termite server in use, unless a fetch of an earlier
\* address, which only the effect's own are spared, was under way when it
\* changed.
BadgesOfServer ==
    screen = "bar" /\ ~st.stale => Badges(st)[1] \in {"", st.url}

\* The matrix and the cards show the same cluster: each shard once in the column
\* of each of its nodes, never as unassigned, one leader at most; the counts of
\* cards and rows add up. After an error the last snapshot stays.
ClusterAgrees ==
    screen = "cluster" =>
        LET d == st.data
            m == Matrix(d)
        IN /\ \A n \in d.stores :
                 GetStoreShardCount(d.shards, n) =
                     MapThenSumSet(LAMBDA t : Cardinality(m[t][n]), DOMAIN m)
           /\ \A i \in DOMAIN d.shards :
                 Cardinality({n \in d.stores : [shard |-> i, role |-> "leader"] \in m[d.shards[i].table][n]}) <= 1
           /\ \A t \in DOMAIN m : \A n \in d.stores : \A c \in m[t][n] : c.role # "unassigned"
           /\ st.of # 0 => d \in Snapshots /\ ClusterPanels(st) \cap {"failed", "spinner"} = {}

\* Once everything is answered, in order and confirmed, the pages show what the
\* server has: each change was followed by a list that saw it.
ListsCurrent ==
    AllDone /\ screen \in {"secrets", "users", "tables", "details", "schema"} =>
        st.late \/
        CASE screen = "secrets" -> /\ StatusBadges(st) = SecretList(st.server)
                                   /\ QuickKeys(st) \cap (st.server.keystore \cup st.server.env) = {}
          [] screen = "users" -> /\ st.users = DOMAIN st.server
                                 /\ st.selected # "" /\ st.selected \in st.users =>
                                       st.perms = {<<st.selected, p>> : p \in st.server[st.selected]}
          [] screen = "tables" -> st.timer = <<>> => st.tables \subseteq st.server
          [] screen = "details" -> /\ st.indexesOf = st.table /\ st.schemaOf = st.table
                                   /\ st.indexes = st.server[st.table].indexes
                                   /\ st.schema = st.server[st.table].schema
          [] screen = "schema" -> st.shownOf = st.table /\ st.shown = st.server[st.table]

\* The form of the schemas keeps what was detected: every type has a schema with
\* the fields of its documents, unless several types were new at once. Its JSON
\* is what it would send, and it sends to the table it was opened on, unless
\* the user went to another table: the form stays open.
SchemaFormHonest ==
    screen = "schema" =>
        /\ \A g \in ToSet(st.fresh) : \E i \in DOMAIN st.form :
              st.form[i].name = g.name /\ g.fields \subseteq st.form[i].fields
        /\ \A i, j \in DOMAIN st.json : i # j => st.json[i].name # st.json[j].name
        /\ st.view = "form" => st.json = Formatted(st.form)
        /\ \A k \in DOMAIN calls : calls[k].kind = "update" =>
              st.moved \/ calls[k].of.opened = calls[k].of.table

\* One upload at a time, whole or not at all, with one message at its end; the
\* preview is of the chosen file, unless it was read too late.
UploadHonest ==
    screen = "insert" =>
        /\ Cardinality(Open("upload") \cup Open("batch")) <= 1
        /\ st.loading <=> Open("upload") \cup Open("batch") # {}
        /\ ~(st.error /\ st.success) /\ (st.loading => ~st.error /\ ~st.success)
        /\ \A t \in TableNames : \A b \in st.server[t] : b.table = t /\ Insertable(b.file, b.id)
        /\ st.success => \E t \in TableNames : st.server[t] # {}
        /\ Open("read") = {} => st.late \/ st.content \in {"", st.file}

\* The assistant proposes what was asked last, unless two questions were under
\* way at once: Ctrl+Enter does not wait for the answer.
ProposalHonest ==
    screen = "assistant" =>
        \/ st.over
        \/ /\ st.loading <=> Open("generate") # {}
           /\ st.result \in {0, Len(calls)}

\* The frame around the pages is that of the user and of the route.
FrameOfUser == TypeOK /\ AppShownToUser /\ SidebarOfPage

\* What the console shows is what the server in use said last.
ShownOfServer ==
    /\ PaletteHonest /\ CheckingAccounted /\ BadgesOfServer /\ ClusterAgrees /\ ListsCurrent
    /\ SchemaFormHonest /\ UploadHonest /\ ProposalHonest

\* The JSON tab and the builder stand for the same request: going there and back
\* changes nothing that is sent, whatever indexes came meanwhile, nor the query
\* that was typed, unless no index was selected when the tab was opened: the JSON
\* leaves such a query out, and the way back erases it. So do the two
\* views of the schemas: the form that comes back would send the JSON, although
\* entries without a name, and what was detected behind the JSON, are gone.
ModesAgree ==
    [][/\ screen = "details" /\ HandleQueryModeChange("builder") =>
             /\ QueryRequest(st'.b) = st.json
             /\ st'.b.query = st.b.query \/ st.json.indexes = {}
       /\ screen = "schema" /\ HandleViewChange("form") =>
             Formatted(st'.form) = st.json /\ st'.json = st.json]_vars

\* A server that stays up is found again, whatever the banner has seen before.
Reconnects ==
    \A v \in Servers :
        <>[](screen = "connection" => st.up[v] = "up") =>
            <>[](screen = "connection" => st.status[v] = "connected")

\* The spinners of the console.
Spins ==
    \/ screen \in {"session", "cluster", "secrets", "users", "tables", "insert", "assistant"} /\ st.loading
    \/ screen = "schema" /\ st.detecting
    \/ screen = "tables" /\ st.dropping
    \/ screen = "bar" /\ st.status = "checking"

\* Every spinner ends, of the session, the lists, the drop of a table, the
\* bar's check, the detection, the upload and the assistant (the finally blocks of their handlers), in whatever order the
\* calls are answered, fail or are started again.
SpinnersEnd == []<>(~Spins)

\* The console comes back: its spinners end and its servers are found again.
Recovers == Reconnects /\ SpinnersEnd

=============================================================================
