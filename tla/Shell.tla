------------------------------- MODULE Shell -------------------------------
(***************************************************************************)
(* The frame of Antfarm: who is signed in and what PrivateRoute lets       *)
(* through ("session"); the routes, the sidebar that follows them and the  *)
(* command palette ("shell").                                              *)
(***************************************************************************)
EXTENDS PageCalls

CONSTANTS
    Names,      \* user names
    Urls,       \* addresses of an Antfly server
    DefaultUrl  \* /api/v1

ASSUME ShellAssumption == "" \notin Names /\ DefaultUrl \in Urls

vars == <<screen, st, calls, events>>

\* A user event that only changes the page's own fields.
Only(s) == st' = s /\ UNCHANGED calls

-----------------------------------------------------------------------------
(* AuthProvider, PrivateRoute, LoginPage, SettingsDialog *)

\* stored: antfly_auth of localStorage; at: the route, /login or another one.
SessionInit(stored, at) ==
    [url |-> DefaultUrl, stored |-> stored, user |-> "", enabled |-> "unknown",
     loading |-> TRUE, error |-> FALSE, at |-> at, name |-> "", pass |-> FALSE,
     refused |-> FALSE, dialog |-> FALSE, temp |-> DefaultUrl]

IsAuthenticated(s) == s.enabled = "off" \/ s.user # ""

\* What PrivateRoute renders.
View(s) ==
    CASE s.at = "login" -> "login"
      [] s.at # "login" /\ s.loading -> "loading"
      [] OTHER -> IF IsAuthenticated(s) THEN "app" ELSE "redirect"

\* After a render: the redirect of PrivateRoute is taken, and what is only part
\* of the app loses its state with it.
Rendered(s) ==
    LET r == IF View(s) = "redirect"
             THEN [s EXCEPT !.at = "login", !.name = "", !.pass = FALSE, !.refused = FALSE]
             ELSE s
    IN IF View(r) = "app" THEN r ELSE [r EXCEPT !.dialog = FALSE, !.temp = r.url]

\* hasPermission of who is signed in, for perms a set of [resource, kind, type].
HasPermission(auth, resource, kind, type) ==
    \/ auth.enabled = "off"
    \/ /\ auth.user # ""
       /\ \E p \in auth.perms : /\ p.resource \in {resource, "*"} /\ p.kind \in {kind, "*"}
                                /\ p.type \in {type, "admin"}

\* refreshUser, of the mount and of a new apiUrl: is authentication on?
RefreshUser(s) ==
    /\ Start("status", [url |-> s.url])
    /\ st' = Rendered([s EXCEPT !.loading = TRUE, !.error = FALSE])

\* A server that cannot be reached counts as one with authentication. With
\* stored credentials the user is asked for next.
CheckAuthEnabled(k, on) ==
    /\ screen = "session" /\ calls[k].kind = "status" /\ ~calls[k].done
    /\ LET done == [calls EXCEPT ![k].done = TRUE]
       IN IF on /\ st.stored # <<>>
          THEN /\ calls' = Append(done, Call("me", [url |-> calls[k].of.url,
                                       name |-> st.stored[1], login |-> FALSE]))
               /\ st' = [st EXCEPT !.enabled = "on"]
          ELSE /\ calls' = done
               /\ st' = Rendered([st EXCEPT !.enabled = IF on THEN "on" ELSE "off",
                                    !.user = "", !.loading = FALSE])
    /\ Quiet

\* Mutant of FetchCurrentUser: a login does not store the credentials.
FetchCurrentUserUnstored(k, ok) ==
    /\ screen = "session"
    /\ CallEnds(k, "me", <<>>)
    /\ LET of == calls[k].of
           s == [st EXCEPT !.loading = FALSE]
       IN st' = Rendered(
            IF ok THEN [s EXCEPT !.user = of.name, !.at = IF of.login THEN "app" ELSE @]
            ELSE IF of.login THEN [s EXCEPT !.error = TRUE, !.refused = TRUE]
            ELSE [s EXCEPT !.error = TRUE, !.stored = <<>>, !.user = ""])

\* fetchCurrentUser answers. Any failure of a refresh, of the network too,
\* forgets the credentials.
FetchCurrentUser(k, ok) ==
    /\ screen = "session"
    /\ CallEnds(k, "me", <<>>)
    /\ LET of == calls[k].of
           s == [st EXCEPT !.loading = FALSE]
       IN st' = Rendered(
            IF ok /\ of.login
            THEN [s EXCEPT !.stored = <<of.name>>, !.user = of.name, !.at = "app"]
            ELSE IF ok THEN [s EXCEPT !.user = of.name]
            ELSE IF of.login THEN [s EXCEPT !.error = TRUE, !.refused = TRUE]
            ELSE [s EXCEPT !.error = TRUE, !.stored = <<>>, !.user = ""])

\* The fields of the form, disabled while isLoading.
LoginType(n, p) ==
    /\ User("session") /\ st.at = "login" /\ ~st.loading
    /\ <<n, p>> # <<st.name, st.pass>>
    /\ Only([st EXCEPT !.name = n, !.pass = p])

\* handleSubmit and login.
HandleLogin ==
    /\ User("session") /\ st.at = "login" /\ ~st.loading
    /\ IF st.name = "" \/ ~st.pass THEN Only([st EXCEPT !.refused = TRUE])
       ELSE /\ Start("me", [url |-> st.url, name |-> st.name, login |-> TRUE])
            /\ st' = [st EXCEPT !.loading = TRUE, !.error = FALSE, !.refused = FALSE]

\* handleLogout of the user's menu in the sidebar.
Logout ==
    /\ User("session") /\ View(st) = "app" /\ st.enabled # "off" /\ st.user # ""
    /\ Only(Rendered([st EXCEPT !.stored = <<>>, !.user = "", !.error = FALSE,
                         !.at = "login", !.name = "", !.pass = FALSE, !.refused = FALSE]))

\* The dialog keeps an edit that was left with Escape.
OpenSettings ==
    User("session") /\ View(st) = "app" /\ ~st.dialog /\ Only([st EXCEPT !.dialog = TRUE])
CloseSettings(cancel) ==
    /\ User("session") /\ st.dialog
    /\ Only([st EXCEPT !.dialog = FALSE, !.temp = IF cancel THEN st.url ELSE @])
EditUrl(u) == User("session") /\ st.dialog /\ u # st.temp /\ Only([st EXCEPT !.temp = u])

\* setApiUrl; a new address makes new callbacks, whose effect checks again.
SetApiUrl(s, u) ==
    IF u = st.url THEN Only(Rendered(s)) ELSE RefreshUser([s EXCEPT !.url = u])

SaveSettings ==
    User("session") /\ st.dialog /\ SetApiUrl([st EXCEPT !.dialog = FALSE], st.temp)

\* "Reset to Default": the field of the dialog gets the address of before.
ResetSettings ==
    User("session") /\ st.dialog /\ SetApiUrl([st EXCEPT !.temp = st.url], DefaultUrl)

SessionNext ==
    \/ \E k \in DOMAIN calls : \E b \in BOOLEAN : CheckAuthEnabled(k, b) \/ FetchCurrentUser(k, b)
    \/ \E n \in Names \cup {""} : \E p \in BOOLEAN : LoginType(n, p)
    \/ HandleLogin \/ Logout \/ OpenSettings \/ SaveSettings \/ ResetSettings
    \/ \E c \in BOOLEAN : CloseSettings(c)
    \/ \E u \in Urls : EditUrl(u)

-----------------------------------------------------------------------------
(* Routes. A path is a sequence of parts, split where one path of the app is  *)
(* the beginning of another one.                                              *)

Play(parts) == <<"playground">> \o parts

\* PRODUCTS[product].routes.
RoutesOf(product) ==
    IF product = "antfly"
    THEN {<<>>, <<"create">>, <<"tables">>, <<"users">>, <<"secrets">>, <<"cluster">>,
          Play(<<"evals">>), Play(<<"rag">>), Play(<<"chat">>), Play(<<"embed", "ding">>),
          Play(<<"rerank", "ing">>), Play(<<"chunk", "ing">>)}
    ELSE {<<"models">>, Play(<<"chunk">>), Play(<<"recognize">>), Play(<<"rewrite">>),
          Play(<<"rerank">>), Play(<<"kg">>), Play(<<"embed">>), Play(<<"read">>),
          Play(<<"transcribe">>)}

TablePath == <<"tables", "t">>
Elsewhere == {<<"settings">>, <<"tables">>}

\* The <Route>s of App for a build's products, by the product they are for.
PagesOf(product) ==
    IF product = "antfly" THEN (RoutesOf(product) \ {<<"tables">>}) \cup {TablePath}
    ELSE RoutesOf(product)
Routed(build) == UNION {PagesOf(p) : p \in ToSet(build)}
AllPaths == Routed(<<"antfly", "termite">>) \cup Elsewhere

DefaultRoute(product) == IF product = "antfly" THEN <<>> ELSE Play(<<"chunk">>)

\* productForPath: the longest route that is the path or begins it; none is "".
ProductForPath(build, path) ==
    LET fits == {<<p, r>> \in ToSet(build) \X UNION {RoutesOf(p) : p \in ToSet(build)} :
                    r \in RoutesOf(p) /\ (r = path \/ (r # <<>> /\ IsPrefix(r, path)))}
    IN IF fits = {} THEN ""
       ELSE (CHOOSE f \in fits : \A g \in fits : Len(g[2]) <= Len(f[2]))[1]

\* A build's products in order; the first is the default.
Builds == {<<"antfly", "termite">>, <<"termite", "antfly">>, <<"antfly">>, <<"termite">>}

\* Navigation: an unknown path is replaced by the default route; then the
\* effect of AppContent makes the sidebar follow.
Goto(s, path) ==
    LET to == IF path \in Routed(s.build) THEN path ELSE DefaultRoute(s.build[1])
        product == ProductForPath(s.build, to)
    IN [s EXCEPT !.path = to,
                 !.product = IF to # s.path /\ product # "" THEN product ELSE @]

-----------------------------------------------------------------------------
(* AppSidebar and ProductSwitcher *)

ManagementLinks(s) ==
    IF s.product # "antfly" THEN {}
    ELSE {<<>>, <<"cluster">>} \cup (IF s.admin THEN {<<"users">>, <<"secrets">>} ELSE {})

TableLinks(s) ==
    IF s.product # "antfly" THEN {}
    ELSE {Play(<<"rag">>), Play(<<"chat">>), Play(<<"evals">>), Play(<<"embed", "ding">>),
          Play(<<"rerank", "ing">>), Play(<<"chunk", "ing">>)}

ModelLinks(s) == IF s.product = "termite" THEN {<<"models">>} ELSE {}
ToolLinks(s) ==
    IF s.product # "termite" THEN {}
    ELSE {Play(<<"chunk">>), Play(<<"recognize">>), Play(<<"rewrite">>), Play(<<"rerank">>),
          Play(<<"kg">>), Play(<<"embed">>), Play(<<"read">>), Play(<<"transcribe">>)}

SidebarLinks(s) == ManagementLinks(s) \cup TableLinks(s) \cup ModelLinks(s) \cup ToolLinks(s)

\* The entries that are marked as active.
Sections == {"schema", "indexes", "bulk", "document-builder", "semantic", "faceted"}
ActiveEntries(s) ==
    {l \in SidebarLinks(s) : l = s.path \/ (l = <<>> /\ s.path = <<"create">>)}
        \cup {<<"section", sec>> : sec \in
                 {x \in Sections : s.product = "antfly" /\ s.path = TablePath /\ x = s.section}}

FollowLink(l) == User("shell") /\ l \in SidebarLinks(st) /\ Only(Goto(st, l))

\* handleSectionClick
HandleSectionClick(section) ==
    /\ User("shell") /\ st.product = "antfly" /\ st.table
    /\ Only([Goto(st, TablePath) EXCEPT !.section = section])

\* Before the tables are there none is selected.
TableSelected ==
    screen = "shell" /\ ~st.table /\ Quiet /\ Only([st EXCEPT !.table = TRUE])

\* handleProductSelect, offered when there are several.
HandleProductSelect(p) ==
    /\ User("shell") /\ Len(st.build) > 1
    /\ Only(Goto([st EXCEPT !.product = p], DefaultRoute(p)))

\* "Settings" of the user's menu has no route.
UserSettings == User("shell") /\ Only(Goto(st, <<"settings">>))

-----------------------------------------------------------------------------
(* CommandPaletteProvider. A query is "", one that matches a label, one      *)
(* character, or one of the Odd ones that no label contains.                 *)

Odd == {"odd1", "odd2"}
HasStringMatches(q) == q \in {"", "match"}

\* stale (history): an answer came for a text that was no longer there.
PaletteInit == [open |-> FALSE, query |-> "", timer |-> FALSE, results |-> <<>>,
                searching |-> FALSE, stale |-> FALSE]

ShellInit(build, path, auth, table) ==
    Goto([build |-> build, path |-> <<"?">>, product |-> build[1], section |-> "indexes",
          admin |-> HasPermission(auth, "*", "*", "admin"), table |-> table, theme |-> "system", wide |-> FALSE,
          pal |-> PaletteInit], path)

NavigationCommands ==
    {<<>>, <<"create">>, <<"models">>, <<"users">>, Play(<<"chunk", "ing">>), Play(<<"recognize">>),
     Play(<<"rewrite">>), Play(<<"rerank">>), Play(<<"kg">>), Play(<<"evals">>)}

\* The effect of the query: the timer of the one before is cleared; isSearching
\* stays on when the new query needs no search.
Queried(p, q) ==
    IF HasStringMatches(q) \/ q = "x"
    THEN [p EXCEPT !.query = q, !.results = <<>>, !.timer = FALSE]
    ELSE [p EXCEPT !.query = q, !.searching = TRUE, !.timer = TRUE]

\* The effect of closing.
Closed(p) == [Queried(p, "") EXCEPT !.open = FALSE, !.searching = FALSE]

\* Cmd+K, the button of the header, Escape.
TogglePalette ==
    /\ User("shell")
    /\ Only([st EXCEPT !.pal = IF @.open THEN Closed(@) ELSE [@ EXCEPT !.open = TRUE]])

SetSearchValue(q) ==
    User("shell") /\ st.pal.open /\ q # st.pal.query /\ Only([st EXCEPT !.pal = Queried(@, q)])

SearchTimer ==
    /\ screen = "shell" /\ st.pal.timer
    /\ Start("embed", [query |-> st.pal.query])
    /\ st' = [st EXCEPT !.pal.timer = FALSE]
    /\ Quiet

\* semanticSearch answers with the nearest commands, or with none.
SemanticSearch(k, found) ==
    /\ screen = "shell"
    /\ CallEnds(k, "embed", <<>>)
    /\ st' = [st EXCEPT !.pal.results = IF found THEN <<calls[k].of.query>> ELSE <<>>,
                        !.pal.searching = FALSE,
                        !.pal.stale = @ \/ calls[k].of.query # st.pal.query]

ClosestMatches(s) == ~HasStringMatches(s.pal.query) /\ s.pal.results # <<>>

\* handleSelect of a page.
SelectPage(path) ==
    /\ User("shell") /\ st.pal.open
    /\ HasStringMatches(st.pal.query) \/ ClosestMatches(st)
    /\ Only(Goto([st EXCEPT !.pal = Closed(@)], path))

NextTheme == [system |-> "light", light |-> "dark", dark |-> "system"]

\* The quick actions, also buttons of the header.
ToggleTheme == User("shell") /\ Only([st EXCEPT !.theme = NextTheme[@], !.pal = Closed(@)])
ToggleWidth == User("shell") /\ Only([st EXCEPT !.wide = ~@, !.pal = Closed(@)])

ShellNext ==
    \/ \E l \in SidebarLinks(st) : FollowLink(l)
    \/ \E x \in Sections : HandleSectionClick(x)
    \/ \E p \in ToSet(st.build) : HandleProductSelect(p)
    \/ TableSelected \/ UserSettings \/ TogglePalette \/ SearchTimer
    \/ \E q \in Odd \cup {"", "match", "x"} : SetSearchValue(q)
    \/ \E k \in DOMAIN calls : \E found \in BOOLEAN : SemanticSearch(k, found)
    \/ \E p \in NavigationCommands : SelectPage(p)
    \/ ToggleTheme \/ ToggleWidth

=============================================================================
