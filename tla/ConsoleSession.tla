--------------------------- MODULE ConsoleSession ---------------------------
(***************************************************************************)
(* Sessions of the admin console: browser windows with an AuthProvider     *)
(* each, the token and the profile they share in localStorage, the routes  *)
(* that guard the console, the sign-in page, the open tabs of the layout,  *)
(* and the requests a page has in flight when any of it changes.           *)
(***************************************************************************)
EXTENDS ConsoleAccess, FiniteSets

CONSTANTS Windows,       \* browser windows on one localStorage
          Accounts,
          Grants,        \* [Accounts -> [codes, scope]]: what the server answers
          Destinations,  \* the addresses a user types or reloads
          None,          \* no token, no user, no location
          MaxSignIns,    \* bound: sign-ins in a behaviour
          MaxCalls       \* bound: page requests of a window in flight

Profile(a) == [account |-> a, permissions |-> NormalizePermissions(Grants[a].codes),
               scope |-> Grants[a].scope]

\* A token names its account.  Here every sign-in has one of its own, so that
\* what an older one still does is told apart from what the newest does; the
\* server gives the sign-ins of an account the same one.
Tokens == [account : Accounts, n : 1..MaxSignIns]
Profiles == {Profile(a) : a \in Accounts}

ASSUME SessionConstants ==
  /\ MaxSignIns \in Nat /\ MaxCalls \in Nat
  /\ Destinations \subseteq ConsolePaths \cup {"/login"}
  /\ None \notin Tokens /\ None \notin Profiles /\ None \notin Accounts
  /\ None \notin ConsolePaths \cup {"/login"}

VARIABLES
  storedToken,  \* localStorage
  storedUser,
  revoked,      \* tokens the server answers with 401
  signIns,
  token,        \* AuthProvider of each window
  user,
  isReady,
  me,           \* the token of the /auth/me in flight
  signing,      \* the account of the sign-in in flight
  path,         \* location
  from,         \* where the sign-in page came from
  openTabs,
  calls,        \* the tokens of the page requests in flight
  foreign,      \* another window changed the stored token since this one took it
  refused       \* a 401 reached this window since it took its token

storage == <<storedToken, storedUser>>
server == <<revoked, signIns>>
provider == <<token, user, isReady, me>>
place == <<path, from, openTabs>>
vars == <<storage, server, provider, signing, place, calls, foreign, refused>>

InConsole(w) == isReady[w] /\ token[w] # None /\ path[w] \in ConsolePaths

\* Mutant: a signed-in user on the sign-in page is sent to the location it came from,
\* also when there is none.
LandWithoutDefault(t, p, f) ==
  IF p = "/login" /\ t # None THEN [path |-> Resolve(f), from |-> None]
  ELSE IF p \in ConsolePaths /\ t = None THEN [path |-> "/login", from |-> p]
  ELSE [path |-> Resolve(p), from |-> IF p = "/login" THEN f ELSE None]

\* Where the routes leave a window with session t that asks for p, arriving
\* with f as the location to come back to.
Land(t, p, f) ==
  IF p = "/login" /\ t # None THEN [path |-> Resolve(IF f = None THEN "/" ELSE f), from |-> None]
  ELSE IF p \in ConsolePaths /\ t = None THEN [path |-> "/login", from |-> p]
  ELSE [path |-> Resolve(p), from |-> IF p = "/login" THEN f ELSE None]

\* Mutant: every visit appends a tab.
WithEveryTab(tabs, p) == Append(tabs, p)

\* The layout's effect adds the active location to the tabs.
WithTab(tabs, p) == IF \E i \in DOMAIN tabs : tabs[i] = p THEN tabs ELSE Append(tabs, p)

\* A window of session t comes to rest at p, its layout mounted afresh when
\* it had no tabs.
Rest(w, t, p, f, tabs) ==
  LET end == Land(t, p, f)
  IN  /\ path' = [path EXCEPT ![w] = end.path]
      /\ from' = [from EXCEPT ![w] = end.from]
      /\ openTabs' = [openTabs EXCEPT ![w] =
                        IF end.path = "/login" THEN <<>> ELSE WithTab(tabs, end.path)]

\* Mutant: a stored profile makes the window ready before the server answers.
ProvideEarly(w, t, u, ready, pending) ==
  /\ token' = [token EXCEPT ![w] = t]
  /\ user' = [user EXCEPT ![w] = u]
  /\ isReady' = [isReady EXCEPT ![w] = ready \/ u # None]
  /\ me' = [me EXCEPT ![w] = pending]

Provide(w, t, u, ready, pending) ==
  /\ token' = [token EXCEPT ![w] = t]
  /\ user' = [user EXCEPT ![w] = u]
  /\ isReady' = [isReady EXCEPT ![w] = ready]
  /\ me' = [me EXCEPT ![w] = pending]

\* What window w does to the shared token, as another window in a session
\* meets it ...
Overwritten(v, t) == token[v] # None /\ (foreign[v] \/ t # storedToken)

SetStored(w, t, u) ==
  /\ storedToken' = t
  /\ storedUser' = u
  /\ foreign' = [v \in Windows |-> IF v = w THEN foreign[w] ELSE Overwritten(v, t)]

\* Mutant: a window that takes a session stores only its profile.
AdoptUnstored(w, t, u) ==
  /\ storedUser' = u
  /\ UNCHANGED storedToken
  /\ foreign' = [v \in Windows |-> v # w /\ Overwritten(v, t)]
  /\ refused' = [refused EXCEPT ![w] = FALSE]

\* ... and when the session of w and the stored one become the same.
Adopt(w, t, u) ==
  /\ storedToken' = t
  /\ storedUser' = u
  /\ foreign' = [v \in Windows |-> v # w /\ Overwritten(v, t)]
  /\ refused' = [refused EXCEPT ![w] = FALSE]

-----------------------------------------------------------------------------
\* The first load of every window finds the storage empty.
Init ==
  /\ storedToken = None /\ storedUser = None
  /\ revoked = {} /\ signIns = 0
  /\ token = [w \in Windows |-> None] /\ user = [w \in Windows |-> None]
  /\ isReady = [w \in Windows |-> TRUE] /\ me = [w \in Windows |-> None]
  /\ signing = [w \in Windows |-> None]
  /\ path = [w \in Windows |-> "/login"] /\ from = [w \in Windows |-> "/"]
  /\ openTabs = [w \in Windows |-> <<>>]
  /\ calls = [w \in Windows |-> {}]
  /\ foreign = [w \in Windows |-> FALSE] /\ refused = [w \in Windows |-> FALSE]

\* A typed address or a reload (which keeps the location's state): the mount
\* effect reads the storage and, with a token, asks the server who it is.
Load(w, p) ==
  /\ Provide(w, storedToken, storedUser, storedToken = None, storedToken)
  /\ Adopt(w, storedToken, storedUser)
  /\ LET f == IF p = path[w] THEN from[w] ELSE None
     IN  IF storedToken = None THEN Rest(w, None, p, f, <<>>)
         ELSE /\ path' = [path EXCEPT ![w] = p]
              /\ from' = [from EXCEPT ![w] = f]
              /\ openTabs' = [openTabs EXCEPT ![w] = <<>>]
  /\ signing' = [signing EXCEPT ![w] = None]
  /\ calls' = [calls EXCEPT ![w] = {}]
  /\ UNCHANGED server

MeAnswered(w) ==
  /\ me[w] # None /\ me[w] \notin revoked
  /\ LET u == Profile(me[w].account)
     IN  /\ Provide(w, token[w], u, TRUE, None)
         /\ SetStored(w, storedToken, u)
  /\ Rest(w, token[w], path[w], from[w], <<>>)
  /\ UNCHANGED <<server, signing, calls, refused>>

\* Mutant: the finally of the mount effect is left out.
MeFailedUnready(w) ==
  /\ me[w] # None
  /\ Provide(w, None, None, FALSE, None)
  /\ Adopt(w, None, None)
  /\ Rest(w, None, path[w], from[w], <<>>)
  /\ UNCHANGED <<server, signing, calls>>

\* A 401, another error or a lost answer: all of them sign the window out and
\* empty the storage.
MeFailed(w) ==
  /\ me[w] # None
  /\ Provide(w, None, None, TRUE, None)
  /\ Adopt(w, None, None)
  /\ Rest(w, None, path[w], from[w], <<>>)
  /\ UNCHANGED <<server, signing, calls>>

SubmitLogin(w, a) ==
  /\ isReady[w] /\ token[w] = None /\ path[w] = "/login" /\ signing[w] = None
  /\ signing' = [signing EXCEPT ![w] = a]
  /\ UNCHANGED <<storage, server, provider, place, calls, foreign, refused>>

\* signIn, then navigate to where the user came from or to the first page of
\* the menu; both commit together.
LoginAccepted(w) ==
  /\ signing[w] # None /\ signIns < MaxSignIns
  /\ LET t == [account |-> signing[w], n |-> signIns + 1]
         u == Profile(signing[w])
     IN  /\ Provide(w, t, u, TRUE, None)
         /\ Adopt(w, t, u)
         /\ Rest(w, t, IF from[w] \in {None, "/"} THEN FirstAccessibleNavPath(u.permissions)
                       ELSE from[w], None, <<>>)
  /\ signIns' = signIns + 1
  /\ signing' = [signing EXCEPT ![w] = None]
  /\ UNCHANGED <<revoked, calls>>

\* Wrong credentials are a 401 like any other: request() drops the stored
\* token.  A lost answer leaves it.
LoginRefused(w) ==
  /\ signing[w] # None
  /\ signing' = [signing EXCEPT ![w] = None]
  /\ \E t \in {None, storedToken} : SetStored(w, t, storedUser)
  /\ UNCHANGED <<server, provider, place, calls, refused>>

\* The account menu: signOut and navigate commit together.
SignOut(w) ==
  /\ InConsole(w) /\ VisibleNav(user[w]) # {}
  /\ Provide(w, None, None, TRUE, None)
  /\ Adopt(w, None, None)
  /\ Rest(w, None, "/login", None, <<>>)
  /\ UNCHANGED <<server, signing, calls>>

\* The logout button of the page without a menu only navigates to the sign-in
\* page, which sends a signed-in user back.
EmptyLogout(w) ==
  /\ InConsole(w) /\ VisibleNav(user[w]) = {}
  /\ Rest(w, token[w], "/login", None, <<>>)
  /\ UNCHANGED <<storage, server, provider, signing, calls, foreign, refused>>

-----------------------------------------------------------------------------
\* The layout.

Stay(w) == UNCHANGED <<storage, server, provider, signing, calls, foreign, refused>>

FollowLink(w, item) ==
  /\ InConsole(w) /\ item \in VisibleNav(user[w])
  /\ Rest(w, token[w], item.key, None, openTabs[w])
  /\ Stay(w)

SwitchTab(w, i) ==
  /\ InConsole(w) /\ VisibleNav(user[w]) # {}
  /\ Rest(w, token[w], openTabs[w][i], None, openTabs[w])
  /\ Stay(w)

\* Tabs are told apart by their paths, which differ (WorkspaceOfSession).
Without(tabs, i) == SubSeq(tabs, 1, i - 1) \o SubSeq(tabs, i + 1, Len(tabs))

\* Closing the active tab goes to the last of those left.
CloseTab(w, i) ==
  /\ InConsole(w) /\ VisibleNav(user[w]) # {} /\ Len(openTabs[w]) > 1
  /\ LET next == Without(openTabs[w], i)
     IN  Rest(w, token[w], IF openTabs[w][i] = path[w] THEN next[Len(next)] ELSE path[w], None, next)
  /\ Stay(w)

\* closeOthers and closeAll both leave the active tab alone.
CloseOthers(w) ==
  /\ InConsole(w) /\ VisibleNav(user[w]) # {} /\ Len(openTabs[w]) > 1
  /\ Rest(w, token[w], path[w], None, <<path[w]>>)
  /\ Stay(w)

-----------------------------------------------------------------------------
\* Requests of the page, sent with the token the storage holds at that moment.

Request(w) ==
  /\ InConsole(w) /\ RouteAdmits(user[w], path[w])
  /\ Cardinality(calls[w]) < MaxCalls
  /\ calls' = [calls EXCEPT ![w] = @ \cup {storedToken}]
  /\ UNCHANGED <<storage, server, provider, signing, place, foreign, refused>>

\* A 401 drops whatever token is stored by now; the page keeps its session.
Answered(w, t) ==
  /\ t \in calls[w]
  /\ calls' = [calls EXCEPT ![w] = @ \ {t}]
  /\ LET denied == t = None \/ t \in revoked
     IN  /\ SetStored(w, IF denied THEN None ELSE storedToken, storedUser)
         /\ refused' = [refused EXCEPT ![w] = token[w] # None /\ (@ \/ denied)]
  /\ UNCHANGED <<server, provider, signing, place>>

\* The server stops accepting a token: its account is disabled or has no role.
Expire(t) ==
  /\ t.n <= signIns /\ t \notin revoked
  /\ revoked' = revoked \cup {t}
  /\ UNCHANGED <<storage, signIns, provider, signing, place, calls, foreign, refused>>

WindowNext(w) ==
  \/ \E p \in Destinations \cup {path[w]} : Load(w, p)
  \/ MeAnswered(w) \/ MeFailed(w)
  \/ \E a \in Accounts : SubmitLogin(w, a)
  \/ LoginAccepted(w) \/ LoginRefused(w)
  \/ SignOut(w) \/ EmptyLogout(w)
  \/ \E item \in NavSet : item.key \in Destinations /\ FollowLink(w, item)
  \/ \E i \in DOMAIN openTabs[w] : SwitchTab(w, i) \/ CloseTab(w, i)
  \/ CloseOthers(w)
  \/ Request(w)
  \/ \E t \in calls[w] : Answered(w, t)

Next == (\E w \in Windows : WindowNext(w)) \/ (\E t \in Tokens : Expire(t))

\* The browser settles the /auth/me of a load; users owe nothing.
Spec == Init /\ [][Next]_vars /\ \A w \in Windows : WF_vars(MeAnswered(w) \/ MeFailed(w))

-----------------------------------------------------------------------------
\* Properties.

\* Every part of the state has its type (AuthProvider, AdminLayout, request).
SessionTypeOK ==
  /\ storedToken \in Tokens \cup {None} /\ storedUser \in Profiles \cup {None}
  /\ revoked \subseteq Tokens /\ signIns \in 0..MaxSignIns
  /\ token \in [Windows -> Tokens \cup {None}] /\ user \in [Windows -> Profiles \cup {None}]
  /\ isReady \in [Windows -> BOOLEAN] /\ me \in [Windows -> Tokens \cup {None}]
  /\ signing \in [Windows -> Accounts \cup {None}]
  /\ path \in [Windows -> ConsolePaths \cup {"/login"}]
  /\ from \in [Windows -> ConsolePaths \cup {"/login", None}]
  /\ openTabs \in [Windows -> Seq(ConsolePaths)]
  /\ calls \in [Windows -> SUBSET (Tokens \cup {None})]
  /\ foreign \in [Windows -> BOOLEAN] /\ refused \in [Windows -> BOOLEAN]

\* The profile a ready window shows, and whose permissions open its pages, is
\* that of the account its token was issued to, whatever the other windows
\* left in the storage it loaded from (the mount effect of AuthProvider).
ShownIsOwner ==
  \A w \in Windows : isReady[w] /\ token[w] # None => user[w] = Profile(token[w].account)

\* The requests of a signed-in window carry its own token, unless another
\* window changed the stored one, or a 401 emptied it: an answer to an earlier
\* session can, so a window may show a session and send none (request).
RequestsAsShown ==
  \A w \in Windows :
    isReady[w] /\ token[w] # None /\ ~foreign[w]
      => storedToken = token[w] \/ (storedToken = None /\ refused[w])

\* The open tabs belong to the session: none survives a sign-out, none is
\* open twice, and the page on show is always one of them (AdminLayout).
WorkspaceOfSession ==
  \A w \in Windows :
    /\ token[w] = None => openTabs[w] = <<>>
    /\ InConsole(w) => \E i \in DOMAIN openTabs[w] : openTabs[w][i] = path[w]
    /\ \A i, j \in DOMAIN openTabs[w] : openTabs[w][i] = openTabs[w][j] => i = j

\* A sign-in that comes from nowhere lands on a page the account has the
\* permission for, if it has any: its guard can only refuse the level, which
\* the landing does not look at (firstAccessibleNavPath).
LandsWithPermission ==
  \A w \in Windows :
    token[w] = None /\ token'[w] # None /\ isReady'[w] /\ from[w] \in {None, "/"}
      => \/ \E item \in NavSet : item.key = path'[w] /\ item.permission \in user'[w].permissions
         \/ \A item \in NavSet : item.permission \notin user'[w].permissions

LandingHeld == [][LandsWithPermission]_vars

\* Every load ends, signed in or not (the finally of the mount effect).
LoadEnds == \A w \in Windows : ~isReady[w] ~> isReady[w]

=============================================================================
