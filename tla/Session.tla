------------------------------- MODULE Session -------------------------------
(***************************************************************************)
(* The mock session: contexts/AuthContext.js (user, loading and the       *)
(* localStorage record 'ecommerce_user'), the LoginPage that calls it and *)
(* the Header's logout, under navigation and page reloads.                *)
(*                                                                         *)
(* login and signup await a 1 s timer; equal timers fire in arming order, *)
(* so pending requests form a queue.  handleSubmit resumes after the       *)
(* await whether or not the LoginPage is still mounted: its setState calls *)
(* are dropped when it is not, but the 1.5 s navigate('/') it arms is not. *)
(* A user is abstracted to the email it was fabricated from.  A failed    *)
(* validateForm only sets inline errors and is a stutter step.             *)
(***************************************************************************)
EXTENDS Integers, Sequences

CONSTANTS
    Emails,      \* emails typed into the form
    NoUser,      \* user === null / no localStorage record
    MaxMounts,   \* bound: LoginPage is mounted at most MaxMounts times
    MaxReloads,  \* bound: the browser reloads the app at most MaxReloads times
    MaxTimers    \* bound: no submit while MaxTimers redirects are armed

ASSUME NoUser \notin Emails

Pages == {"home", "login", "orders"}

VARIABLES
    user,          \* AuthContext user
    loading,       \* AuthContext loading
    stored,        \* localStorage 'ecommerce_user'
    restoring,     \* the app is mounted and its restore effect has not run
    pending,       \* armed 1 s timers: [op, email, mount, loggedOut], oldest first
    homeTimers,    \* armed 1.5 s navigate('/') timers after a login
    page,          \* the route shown
    loginMount,    \* how many times LoginPage has been mounted
    tabValue,      \* LoginPage: 0 login, 1 sign up
    reloads,       \* how many times the browser has reloaded the app
    menuOpen       \* Header: the profile menu's anchorEl is set

vars == <<user, loading, stored, restoring, pending, homeTimers, page,
          loginMount, tabValue, reloads, menuOpen>>

LoginShown(m) == page = "login" /\ loginMount = m

-----------------------------------------------------------------------------
\* Route change; entering /login mounts a fresh LoginPage on the login tab.
Navigate(to) ==
    /\ ~restoring /\ ~menuOpen
    /\ to # page
    /\ page' = to
    /\ IF to = "login"
       THEN loginMount < MaxMounts /\ loginMount' = loginMount + 1 /\ tabValue' = 0
       ELSE UNCHANGED <<loginMount, tabValue>>
    /\ UNCHANGED <<user, loading, stored, restoring, pending, homeTimers, reloads, menuOpen>>

\* LoginPage.handleTabChange.
ChangeTab(t) ==
    /\ ~restoring /\ ~menuOpen /\ page = "login"
    /\ tabValue' = t
    /\ UNCHANGED <<user, loading, stored, restoring, pending, homeTimers, page,
                   loginMount, reloads, menuOpen>>

\* Fault: the submit button not disabled while loading.
SubmitNotDisabled(e) ==
    /\ ~restoring /\ ~menuOpen /\ page = "login"
    /\ homeTimers < MaxTimers
    /\ loading' = TRUE
    /\ pending' = Append(pending, [op |-> IF tabValue = 0 THEN "login" ELSE "signup",
                                   email |-> e, mount |-> loginMount,
                                   loggedOut |-> FALSE])
    /\ UNCHANGED <<user, stored, restoring, homeTimers, page, loginMount,
                   tabValue, reloads, menuOpen>>

\* LoginPage.handleSubmit with a form that validates: login(email, password)
\* on the login tab, signup(...) on the other; both setLoading(true) and
\* await.  The submit button is disabled while loading.
Submit(e) ==
    /\ ~restoring /\ ~menuOpen /\ page = "login" /\ ~loading
    /\ homeTimers < MaxTimers
    /\ loading' = TRUE
    /\ pending' = Append(pending, [op |-> IF tabValue = 0 THEN "login" ELSE "signup",
                                   email |-> e, mount |-> loginMount,
                                   loggedOut |-> FALSE])
    /\ UNCHANGED <<user, stored, restoring, homeTimers, page, loginMount,
                   tabValue, reloads, menuOpen>>

\* The Header renders the avatar button and its Menu only while user is
\* set, and the Login button otherwise.
UserMenuRendered == user # NoUser

\* Header.handleProfileMenuOpen: the avatar button is rendered only with a
\* user.  The open Menu is modal: until it closes, a click elsewhere only
\* closes it, so no other control of the page can be used.
OpenMenu ==
    /\ ~restoring /\ ~menuOpen /\ UserMenuRendered
    /\ menuOpen' = TRUE
    /\ UNCHANGED <<user, loading, stored, restoring, pending, homeTimers, page,
                   loginMount, tabValue, reloads>>

\* Header.handleMenuClose, the Menu's onClose (a click away or Escape).
CloseMenu ==
    /\ menuOpen
    /\ menuOpen' = FALSE
    /\ UNCHANGED <<user, loading, stored, restoring, pending, homeTimers, page,
                   loginMount, tabValue, reloads>>

\* "My Orders" and "Profile": navigate('/orders' or '/profile'), then
\* handleMenuClose.  '/profile' is not a route of spec.md 6.
MenuNavigate(to) ==
    /\ menuOpen
    /\ page' = to
    /\ menuOpen' = FALSE
    /\ UNCHANGED <<user, loading, stored, restoring, pending, homeTimers,
                   loginMount, tabValue, reloads>>

\* AuthContext.logout: setUser(null) and localStorage.removeItem.
logout == user' = NoUser /\ stored' = NoUser

\* Fault: logout() without localStorage.removeItem.
LogoutKeepsRecord ==
    /\ menuOpen /\ UserMenuRendered
    /\ user' = NoUser
    /\ page' = "home"
    /\ menuOpen' = FALSE
    /\ pending' = [i \in DOMAIN pending |-> [pending[i] EXCEPT !.loggedOut = TRUE]]
    /\ UNCHANGED <<loading, stored, restoring, homeTimers, loginMount, tabValue,
                   reloads>>

\* Header.handleLogout, the menu's "Logout": logout() clears user and the
\* localStorage record, then handleMenuClose and navigate('/').  Requests
\* still pending are marked as submitted before this logout.
Logout ==
    /\ menuOpen /\ UserMenuRendered
    /\ logout
    /\ page' = "home"
    /\ menuOpen' = FALSE
    /\ pending' = [i \in DOMAIN pending |-> [pending[i] EXCEPT !.loggedOut = TRUE]]
    /\ UNCHANGED <<loading, restoring, homeTimers, loginMount, tabValue, reloads>>

\* The 1 s timer of login fires: setUser and localStorage.setItem with the
\* fabricated user, finally setLoading(false); handleSubmit resumes and arms
\* the 1.5 s navigate('/').
LoginResolves ==
    /\ pending # <<>> /\ Head(pending).op = "login"
    /\ user' = Head(pending).email
    /\ stored' = Head(pending).email
    /\ loading' = FALSE
    /\ pending' = Tail(pending)
    /\ homeTimers' = homeTimers + 1
    /\ UNCHANGED <<restoring, page, loginMount, tabValue, reloads, menuOpen>>

\* The 1 s timer of signup fires: it returns a user without logging in,
\* finally setLoading(false); handleSubmit switches to the login tab if its
\* page is still shown.
SignupResolves ==
    /\ pending # <<>> /\ Head(pending).op = "signup"
    /\ loading' = FALSE
    /\ pending' = Tail(pending)
    /\ tabValue' = IF LoginShown(Head(pending).mount) THEN 0 ELSE tabValue
    /\ UNCHANGED <<user, stored, restoring, homeTimers, page, loginMount, reloads, menuOpen>>

\* LoginPage's setTimeout(() => navigate('/'), 1500).
RedirectHome ==
    /\ homeTimers > 0
    /\ homeTimers' = homeTimers - 1
    /\ page' = "home"
    /\ UNCHANGED <<user, loading, stored, restoring, pending, loginMount,
                   tabValue, reloads, menuOpen>>

\* The browser reloads the same route: memory and timers are lost,
\* localStorage is kept, AuthProvider starts with user = null and the
\* Header with no menu anchor.
Reload ==
    /\ reloads < MaxReloads
    /\ reloads' = reloads + 1
    /\ user' = NoUser
    /\ loading' = FALSE
    /\ restoring' = TRUE
    /\ pending' = <<>>
    /\ homeTimers' = 0
    /\ tabValue' = 0
    /\ menuOpen' = FALSE
    /\ UNCHANGED <<stored, page, loginMount>>

\* Fault: the mount effect reading another localStorage key.
RestoreUserWrongKey ==
    /\ restoring
    /\ restoring' = FALSE
    /\ UNCHANGED <<user, loading, stored, pending, homeTimers, page, loginMount,
                   tabValue, reloads, menuOpen>>

\* AuthProvider's mount effect: setUser(JSON.parse(savedUser)) if present.
\* It runs before the page can handle any input.
RestoreUser ==
    /\ restoring
    /\ restoring' = FALSE
    /\ user' = stored
    /\ UNCHANGED <<loading, stored, pending, homeTimers, page, loginMount,
                   tabValue, reloads, menuOpen>>

-----------------------------------------------------------------------------
Init ==
    /\ stored \in Emails \cup {NoUser}   \* whatever an earlier visit left
    /\ user = NoUser
    /\ loading = FALSE
    /\ restoring = TRUE
    /\ pending = <<>>
    /\ homeTimers = 0
    /\ page \in Pages
    /\ loginMount = IF page = "login" THEN 1 ELSE 0
    /\ tabValue = 0
    /\ reloads = 0
    /\ menuOpen = FALSE

Next ==
    \/ \E to \in Pages : Navigate(to)
    \/ \E t \in {0, 1} : ChangeTab(t)
    \/ \E e \in Emails : Submit(e)
    \/ OpenMenu \/ CloseMenu \/ Logout
    \/ \E to \in {"orders", "profile"} : MenuNavigate(to)
    \/ LoginResolves \/ SignupResolves \/ RedirectHome
    \/ Reload \/ RestoreUser

Spec == Init /\ [][Next]_vars
          /\ WF_vars(LoginResolves) /\ WF_vars(SignupResolves)
          /\ WF_vars(RedirectHome) /\ WF_vars(RestoreUser)

-----------------------------------------------------------------------------
Request == [op : {"login", "signup"}, email : Emails, mount : 0..MaxMounts,
            loggedOut : BOOLEAN]

TypeOK ==
    /\ user \in Emails \cup {NoUser} /\ stored \in Emails \cup {NoUser}
    /\ loading \in BOOLEAN /\ restoring \in BOOLEAN
    /\ pending \in Seq(Request)
    /\ homeTimers \in 0..MaxTimers
    /\ page \in Pages \cup {"profile"} /\ loginMount \in 0..MaxMounts
    /\ tabValue \in {0, 1} /\ reloads \in 0..MaxReloads /\ menuOpen \in BOOLEAN

\* Once the restore effect has run, the in-memory user and the localStorage
\* record agree, across logins, logouts and reloads: a reload brings back
\* exactly the session the user left.
StoredMatchesUser == ~restoring => user = stored

\* AuthContext's single loading flag is true exactly while one login or
\* signup is pending, never more: the disabled submit button is the only
\* guard, and a reload must not leave the flag set.
SingleAuthRequest ==
    /\ Len(pending) <= 1
    /\ loading = (pending # <<>>)

\* spec.md 4.4: logout() clears the session.  A login submitted before the
\* logout and still awaiting its timer must not log the user back in
\* afterwards (spec.md 5: stale results are cancelled).
LogoutSticks ==
    [][pending # <<>> /\ Head(pending).loggedOut => user' = user \/ user' = NoUser]_vars
=============================================================================
