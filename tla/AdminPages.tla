---------------------------- MODULE AdminPages ----------------------------
(***************************************************************************)
(* The pages of an administrator: the secrets of the keystore ("secrets")  *)
(* and the users with their permissions ("users"). The server's own state  *)
(* (external) is changed when it answers a call.                           *)
(***************************************************************************)
EXTENDS Shell

CONSTANTS
    Keys,      \* names of secrets, "" aside
    BadKeys,   \* of these, the ones the key format refuses
    Common,    \* of these, the common providers
    Accounts,  \* the users of the server, the administrator among them
    Admin,     \* who is signed in
    Perms      \* permissions

ASSUME AdminAssumption ==
    /\ BadKeys \subseteq Keys /\ Common \subseteq Keys \ BadKeys /\ "" \notin Keys
    /\ Admin \in Accounts /\ "" \notin Accounts

\* Call k ends and another one starts after it.
EndsThen(k, kind, of) ==
    calls' = Append([calls EXCEPT ![k].done = TRUE], Call(kind, of))

\* The server has dealt with call k; its answer is under way.
Served(k) == calls[k].got # <<>>

\* Call k was answered after a later one of its kind.
Overtaken(k) == \E j \in DOMAIN calls : j > k /\ calls[j].kind = calls[k].kind /\ calls[j].done

\* A change that was made but not confirmed.
Lost(k, ok) == Served(k) /\ ~ok

-----------------------------------------------------------------------------
(* SecretsPage. server (environment): the secrets, by where they are set.    *)

DialogInit == [open |-> FALSE, preset |-> "", key |-> "", value |-> FALSE, show |-> FALSE, error |-> FALSE]

\* shown: the list as it came, the status of each key; late (history): a list
\* was overtaken or could not be loaded, or a change was lost.
SecretsInit(swarm, env) ==
    [server |-> [swarm |-> swarm, keystore |-> {}, env |-> env],
     swarm |-> FALSE, shown |-> <<>>, dlg |-> DialogInit,
     loading |-> TRUE, error |-> FALSE, late |-> FALSE]

\* Both effects of the mount.
SecretsCalls == <<Call("mode", <<>>), Call("secrets", <<>>)>>

\* What GET /secrets reports.
SecretList(server) ==
    [key \in server.keystore \cup server.env |->
        CASE key \in server.keystore \cap server.env -> "configured_both"
          [] key \in server.keystore \ server.env -> "configured_keystore"
          [] key \in server.env \ server.keystore -> "configured_env"]

\* The server deals with a call.
ServeSecrets(k) ==
    /\ screen = "secrets" /\ ~calls[k].done /\ ~Served(k)
    /\ LET c == calls[k]
           reply == IF c.kind = "secrets" THEN <<SecretList(st.server)>> ELSE <<"ok">>
       IN /\ calls' = [calls EXCEPT ![k].got = reply]
          /\ st' = [st EXCEPT !.server.keystore =
                       CASE c.kind = "put" -> @ \cup {c.of.key}
                         [] c.kind = "delete" -> @ \ {c.of.key}
                         [] OTHER -> @]
    /\ Quiet

\* checkMode: a failure leaves the page read-only.
CheckMode(k, ok) ==
    /\ screen = "secrets" /\ (ok => Served(k))
    /\ CallEnds(k, "mode", calls[k].got)
    /\ st' = IF ok THEN [st EXCEPT !.swarm = st.server.swarm] ELSE st

\* fetchSecrets ends.
FetchSecrets(k, ok) ==
    /\ screen = "secrets" /\ (ok => Served(k))
    /\ CallEnds(k, "secrets", calls[k].got)
    /\ st' = [st EXCEPT !.loading = FALSE, !.shown = IF ok THEN calls[k].got[1] ELSE @,
                        !.error = @ \/ ~ok, !.late = @ \/ ~ok \/ Overtaken(k)]

\* The keys the page has a use for: a badge in the table, a quick key, the
\* field of a custom key.
StatusBadges(s) == IF s.loading THEN <<>> ELSE s.shown
QuickKeys(s) == IF s.swarm THEN Common \ DOMAIN s.shown ELSE {}
KeyField(s) == s.dlg.open /\ s.dlg.preset \in {"", "custom"}

\* The dialog: opened by the button or by Quick Add, edited, closed. Closing
\* keeps what was typed.
OpenAdd == User("secrets") /\ st.swarm /\ ~st.dlg.open /\ Only([st EXCEPT !.dlg.open = TRUE])
CloseAdd == User("secrets") /\ st.dlg.open /\ Only([st EXCEPT !.dlg.open = FALSE])
QuickAdd(key) ==
    /\ User("secrets") /\ st.swarm /\ ~st.dlg.open /\ key \in QuickKeys(st)
    /\ Only([st EXCEPT !.dlg = [@ EXCEPT !.open = TRUE, !.preset = key, !.key = key, !.value = FALSE]])

\* handlePresetChange
HandlePresetChange(p) ==
    /\ User("secrets") /\ st.dlg.open
    /\ Only([st EXCEPT !.dlg.preset = p, !.dlg.key = IF p = "custom" THEN "" ELSE p])

\* The field of the key is there for a custom one.
EditKey(key) ==
    /\ User("secrets") /\ KeyField(st) /\ key # st.dlg.key
    /\ Only([st EXCEPT !.dlg.key = key])
EditValue(v) == User("secrets") /\ st.dlg.open /\ v # st.dlg.value /\ Only([st EXCEPT !.dlg.value = v])
ToggleShow == User("secrets") /\ st.dlg.open /\ Only([st EXCEPT !.dlg.show = ~@])

\* handleAddSecret up to the PUT.
HandleAddSecret ==
    /\ User("secrets") /\ st.dlg.open
    /\ IF st.dlg.key = "" \/ ~st.dlg.value \/ st.dlg.key \in BadKeys
       THEN Only([st EXCEPT !.dlg.error = TRUE])
       ELSE /\ Start("put", [key |-> st.dlg.key])
            /\ st' = [st EXCEPT !.dlg.error = FALSE]

\* The PUT ends: the dialog, whatever it has become, is closed and emptied.
SecretStored(k, ok) ==
    /\ screen = "secrets" /\ calls[k].kind = "put" /\ ~calls[k].done /\ (ok => Served(k)) /\ Quiet
    /\ IF ok
       THEN /\ EndsThen(k, "secrets", <<>>)
            /\ st' = [st EXCEPT !.dlg = [DialogInit EXCEPT !.error = st.dlg.error],
                                !.loading = TRUE, !.error = FALSE]
       ELSE /\ calls' = [calls EXCEPT ![k].done = TRUE]
            /\ st' = [st EXCEPT !.dlg.error = TRUE, !.late = @ \/ Lost(k, ok)]

\* handleDeleteSecret, confirmed; a secret of the keystore has the button.
HandleDeleteSecret(key) ==
    /\ User("secrets") /\ st.swarm /\ ~st.loading /\ ~st.dlg.open
    /\ key \in DOMAIN st.shown /\ st.shown[key] \in {"configured_keystore", "configured_both"}
    /\ Start("delete", [key |-> key]) /\ UNCHANGED st

SecretDeleted(k, ok) ==
    /\ screen = "secrets" /\ calls[k].kind = "delete" /\ ~calls[k].done /\ (ok => Served(k)) /\ Quiet
    /\ IF ok
       THEN EndsThen(k, "secrets", <<>>) /\ st' = [st EXCEPT !.loading = TRUE, !.error = FALSE]
       ELSE /\ calls' = [calls EXCEPT ![k].done = TRUE]
            /\ st' = [st EXCEPT !.error = TRUE, !.late = @ \/ Lost(k, ok)]

SecretsNext ==
    \/ \E k \in DOMAIN calls, ok \in BOOLEAN :
          ServeSecrets(k) \/ CheckMode(k, ok) \/ FetchSecrets(k, ok) \/ SecretStored(k, ok) \/ SecretDeleted(k, ok)
    \/ OpenAdd \/ CloseAdd \/ ToggleShow \/ HandleAddSecret
    \/ \E key \in Keys : QuickAdd(key) \/ EditKey(key) \/ HandleDeleteSecret(key)
    \/ \E p \in Common \cup {"custom"} : HandlePresetChange(p)
    \/ \E v \in BOOLEAN : EditValue(v)

-----------------------------------------------------------------------------
(* UsersPage. server (environment): the permissions of each user.            *)

\* perms: the permissions in the panel, with whose they are; late (history):
\* users or permissions were overtaken or not loaded, a change was lost, the
\* permissions fetched after a change are of a user no longer selected, and shown
\* under the one who is, or a removed user was selected meanwhile, and stays so.
UsersInit(server) ==
    [server |-> server, users |-> {}, selected |-> "", perms |-> {}, late |-> FALSE,
     loading |-> TRUE, error |-> FALSE, creating |-> FALSE, name |-> "", pass |-> FALSE,
     adding |-> FALSE, perm |-> "", changing |-> FALSE, next |-> FALSE]

\* The server deals with a call: it reports, changes or refuses. What it
\* refuses it answers with an error.
ServeUsers(k) ==
    /\ screen = "users" /\ ~calls[k].done /\ ~Served(k)
    /\ LET c == calls[k]
           srv == st.server
           Reply(r, server) == calls' = [calls EXCEPT ![k].got = r] /\ st' = [st EXCEPT !.server = server]
       IN CASE c.kind = "users" -> Reply(<<DOMAIN srv>>, srv)
            [] c.kind = "create" -> /\ c.of.user \notin DOMAIN srv
                                    /\ Reply(<<"ok">>, (c.of.user :> {}) @@ srv)
            [] OTHER ->
                 /\ c.of.user \in DOMAIN srv
                 /\ CASE c.kind = "perms" -> Reply(<<{<<c.of.user, p>> : p \in srv[c.of.user]}>>, srv)
                      [] c.kind = "remove" -> Reply(<<"ok">>, [v \in DOMAIN srv \ {c.of.user} |-> srv[v]])
                      [] c.kind = "grant" -> Reply(<<"ok">>, [srv EXCEPT ![c.of.user] = @ \cup {c.of.perm}])
                      [] c.kind = "revoke" -> Reply(<<"ok">>, [srv EXCEPT ![c.of.user] = @ \ {c.of.perm}])
                      [] c.kind = "password" -> Reply(<<"ok">>, srv)
    /\ Quiet

\* fetchUsers ends.
FetchUsers(k, ok) ==
    /\ screen = "users" /\ (ok => Served(k))
    /\ CallEnds(k, "users", calls[k].got)
    /\ st' = [st EXCEPT !.loading = FALSE, !.error = @ \/ ~ok,
                        !.users = IF ok THEN calls[k].got[1] ELSE @,
                        !.late = @ \/ ~ok \/ Overtaken(k)]

\* fetchPermissions ends: its answer is shown whoever is selected by then, and a
\* failure leaves what was there.
FetchPermissions(k, ok) ==
    /\ screen = "users" /\ (ok => Served(k))
    /\ CallEnds(k, "perms", calls[k].got)
    /\ st' = [st EXCEPT !.perms = IF ok THEN calls[k].got[1] ELSE @, !.error = @ \/ ~ok,
                        !.late = @ \/ ~ok \/ Overtaken(k)]

\* A row is selected; the effect asks for its permissions.
Select(s, u) ==
    IF u = s.selected THEN st' = s /\ UNCHANGED calls
    ELSE /\ Start("perms", [user |-> u])
         /\ st' = [s EXCEPT !.selected = u, !.error = FALSE]

Modal(s) == s.creating \/ s.adding \/ s.changing
SelectUser(u) ==
    User("users") /\ ~Modal(st) /\ ~st.loading /\ u \in st.users /\ Select(st, u)

\* The dialogs keep what was typed when they are cancelled.
OpenCreate == User("users") /\ ~Modal(st) /\ Only([st EXCEPT !.creating = TRUE])
EditCreate(n, p) ==
    User("users") /\ st.creating /\ <<n, p>> # <<st.name, st.pass>> /\ Only([st EXCEPT !.name = n, !.pass = p])
OpenPermission == User("users") /\ ~Modal(st) /\ st.selected # "" /\ Only([st EXCEPT !.adding = TRUE])
EditPermission(p) == User("users") /\ st.adding /\ p # st.perm /\ Only([st EXCEPT !.perm = p])
OpenPassword(u) ==
    User("users") /\ ~Modal(st) /\ ~st.loading /\ u \in st.users /\ Select([st EXCEPT !.changing = TRUE], u)
EditPassword == User("users") /\ st.changing /\ ~st.next /\ Only([st EXCEPT !.next = TRUE])
CancelDialog ==
    User("users") /\ Modal(st) /\ Only([st EXCEPT !.creating = FALSE, !.adding = FALSE, !.changing = FALSE])

\* handleCreateUser, handleDeleteUser (confirmed), handleAddPermission,
\* handleRemovePermission, handleChangePassword up to their call.
HandleCreateUser ==
    /\ User("users") /\ st.creating
    /\ IF st.name = "" \/ ~st.pass THEN Only(st)
       ELSE Start("create", [user |-> st.name]) /\ UNCHANGED st
HandleDeleteUser(u) ==
    /\ User("users") /\ ~Modal(st) /\ ~st.loading /\ u \in st.users \ {Admin}
    /\ Start("remove", [user |-> u, at |-> st.selected]) /\ UNCHANGED st
HandleAddPermission ==
    /\ User("users") /\ st.adding /\ st.selected # "" /\ st.perm # ""
    /\ Start("grant", [user |-> st.selected, perm |-> st.perm]) /\ UNCHANGED st
HandleRemovePermission(p) ==
    /\ User("users") /\ ~Modal(st) /\ st.selected # "" /\ p \in st.perms
    /\ Start("revoke", [user |-> st.selected, perm |-> p[2]]) /\ UNCHANGED st
HandleChangePassword ==
    /\ User("users") /\ st.changing
    /\ IF ~st.next THEN Only(st)
       ELSE Start("password", [user |-> st.selected]) /\ UNCHANGED st

\* Their answers. selectedUser is that of the click.
UserAnswers(k, ok) ==
    /\ screen = "users" /\ ~calls[k].done /\ (ok => Served(k)) /\ Quiet
    /\ LET c == calls[k]
           u == c.of.user
       IN \/ /\ ok /\ c.kind = "create"
             /\ EndsThen(k, "users", <<>>)
             /\ st' = [st EXCEPT !.creating = FALSE, !.name = "", !.pass = FALSE,
                                 !.loading = TRUE, !.error = FALSE]
          \/ /\ ok /\ c.kind = "remove"
             /\ EndsThen(k, "users", <<>>)
             /\ LET s == IF c.of.at = u THEN [st EXCEPT !.selected = "", !.perms = {}] ELSE st
                IN st' = [s EXCEPT !.loading = TRUE, !.error = FALSE, !.late = @ \/ u = s.selected]
          \/ /\ ok /\ c.kind \in {"grant", "revoke"}
             /\ EndsThen(k, "perms", [user |-> u])
             /\ LET s == IF c.kind = "grant" THEN [st EXCEPT !.adding = FALSE, !.perm = ""] ELSE st
                IN st' = [s EXCEPT !.error = FALSE, !.late = @ \/ u # st.selected]
          \/ /\ ok /\ c.kind = "password"
             /\ calls' = [calls EXCEPT ![k].done = TRUE]
             /\ st' = [st EXCEPT !.changing = FALSE, !.next = FALSE]
          \/ /\ ~ok /\ c.kind \in {"create", "remove", "grant", "revoke", "password"}
             /\ calls' = [calls EXCEPT ![k].done = TRUE]
             /\ st' = [st EXCEPT !.error = TRUE, !.late = @ \/ Lost(k, ok)]

UsersNext ==
    \/ \E k \in DOMAIN calls, ok \in BOOLEAN :
          ServeUsers(k) \/ FetchUsers(k, ok) \/ FetchPermissions(k, ok) \/ UserAnswers(k, ok)
    \/ OpenCreate \/ OpenPermission \/ EditPassword \/ CancelDialog
    \/ HandleCreateUser \/ HandleAddPermission \/ HandleChangePassword
    \/ \E n \in Accounts, p \in BOOLEAN : EditCreate(n, p)
    \/ \E u \in Accounts : SelectUser(u) \/ OpenPassword(u) \/ HandleDeleteUser(u)
    \/ \E p \in Perms : EditPermission(p) \/ \E u \in Accounts : HandleRemovePermission(<<u, p>>)

=============================================================================
