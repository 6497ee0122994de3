------------------------------ MODULE LoginForm ------------------------------
(***************************************************************************)
(* The form of pages/LoginPage.js: its two tabs, the five text fields,     *)
(* the inline errors validateForm sets and handleInputChange clears, the   *)
(* alert message, and what handleSubmit does when login or signup returns. *)
(*                                                                         *)
(* A field's text is a short sequence of one-character strings.  The     *)
(* mock login and signup always succeed after their 1 s timer, so the     *)
(* errors.submit branches are unreachable and not modelled; the user and  *)
(* the localStorage record they set belong to the Session module.  The    *)
(* page is left by its own navigate('/') or by a Header link, and entered *)
(* again from elsewhere; the timers it armed are not cancelled by the     *)
(* unmount.                                                               *)
(***************************************************************************)
EXTENDS Integers, Sequences, SequencesExt

CONSTANTS
    Emails,          \* email texts typed
    Passwords,       \* password and confirm-password texts typed
    Names,           \* first and last name texts typed
    Providers,       \* the social login buttons
    NoRequest,       \* no login or signup awaiting its timer
    MaxTimers,       \* bound: no submit while MaxTimers redirects are armed
    EmailProbes      \* texts the email pattern is checked on

Fields == {"email", "password", "confirmPassword", "firstName", "lastName"}

VARIABLES
    tabValue,     \* 0 login, 1 sign up
    formData,     \* [Fields -> text]
    errors,       \* [Fields -> error kind, "" when the field has none]
    message,      \* the alert text, "" when none is shown
    pending,      \* the request awaiting its timer: [op, data, live] or NoRequest
    homeTimers,   \* armed 1.5 s navigate('/') timers
    page          \* the route shown: "login", "home" or anything "other"

vars == <<tabValue, formData, errors, message, pending, homeTimers, page>>

\* A LoginPage is mounted.
mounted == page = "login"

EmptyForm == [f \in Fields |-> <<>>]
NoErrors == [f \in Fields |-> ""]

-----------------------------------------------------------------------------
IsSpace(c) == c = " "

\* Fault: the '.' of the pattern unescaped, so any character separates.
EmailStepAnyDot(S, c) ==
    {0} \cup
    { n \in 1..5 :
        \/ n = 5 /\ 5 \in S
        \/ ~IsSpace(c) /\ \/ n = 1 /\ S \cap {0, 1} # {}
                          \/ n = 3 /\ S \cap {2, 3} # {}
                          \/ n = 5 /\ 4 \in S
        \/ c = "@" /\ n = 2 /\ 1 \in S
        \/ n = 4 /\ 3 \in S }

(* /\S+@\S+\.\S+/.test(s): an unanchored search, run as the set of regex  *)
(* positions reachable after each character.  0: before the pattern (kept *)
(* by the search), 1: in the first \S+, 2: after '@', 3: in the second    *)
(* \S+, 4: after '\.', 5: a whole match seen.                              *)
EmailStep(S, c) ==
    {0} \cup
    { n \in 1..5 :
        \/ n = 5 /\ 5 \in S
        \/ ~IsSpace(c) /\ \/ n = 1 /\ S \cap {0, 1} # {}
                          \/ n = 3 /\ S \cap {2, 3} # {}
                          \/ n = 5 /\ 4 \in S
        \/ c = "@" /\ n = 2 /\ 1 \in S
        \/ c = "." /\ n = 4 /\ 3 \in S }

EmailPattern(s) == 5 \in FoldLeft(EmailStep, {0}, s)

\* validateForm: the first failing check of each field, "" if none.  The
\* name and confirm checks run on the sign-up tab only.
validateForm(fd, tab) ==
    [f \in Fields |->
        CASE f = "email" ->
                IF fd.email = <<>> THEN "required"
                ELSE IF ~EmailPattern(fd.email) THEN "invalid" ELSE ""
          [] f = "password" ->
                IF fd.password = <<>> THEN "required"
                ELSE IF Len(fd.password) < 6 THEN "short" ELSE ""
          [] f = "confirmPassword" /\ tab = 1 ->
                IF fd.confirmPassword = <<>> THEN "required"
                ELSE IF fd.password # fd.confirmPassword THEN "mismatch" ELSE ""
          [] f \in {"firstName", "lastName"} /\ tab = 1 ->
                IF fd[f] = <<>> THEN "required" ELSE ""
          [] OTHER -> ""]

\* The fields rendered on a tab, the only ones the user can type into.
Shown(tab) == IF tab = 1 THEN Fields ELSE {"email", "password"}

Values(f) ==
    CASE f = "email" -> Emails
      [] f \in {"password", "confirmPassword"} -> Passwords
      [] OTHER -> Names

-----------------------------------------------------------------------------
\* Fault: typing into a field leaves its error in place.
HandleInputChangeKeepsError(name, value) ==
    /\ mounted /\ name \in Shown(tabValue)
    /\ formData' = [formData EXCEPT ![name] = value]
    /\ UNCHANGED <<tabValue, errors, message, pending, homeTimers, page>>

\* handleInputChange: store the value; clear the field's error if it has one.
HandleInputChange(name, value) ==
    /\ mounted /\ name \in Shown(tabValue)
    /\ formData' = [formData EXCEPT ![name] = value]
    /\ errors' = IF errors[name] # "" THEN [errors EXCEPT ![name] = ""] ELSE errors
    /\ UNCHANGED <<tabValue, message, pending, homeTimers, page>>

\* The Tabs' onChange (called only for the other tab): handleTabChange.
HandleTabChange(t) ==
    /\ mounted /\ t # tabValue
    /\ tabValue' = t
    /\ errors' = NoErrors
    /\ message' = ""
    /\ UNCHANGED <<formData, pending, homeTimers, page>>

\* Fault: the link adds one to the tab instead of switching it.
ToggleTabLinkIncrement ==
    /\ mounted
    /\ tabValue' = tabValue + 1
    /\ UNCHANGED <<formData, errors, message, pending, homeTimers, page>>

\* "Sign up here" / "Sign in here": setTabValue only, errors and message kept.
ToggleTabLink ==
    /\ mounted
    /\ tabValue' = 1 - tabValue
    /\ UNCHANGED <<formData, errors, message, pending, homeTimers, page>>

\* handleSocialLogin and "Forgot Password?" (login tab only): setMessage.
SocialLogin(p) ==
    /\ mounted
    /\ message' = p
    /\ UNCHANGED <<tabValue, formData, errors, pending, homeTimers, page>>

ForgotPassword ==
    /\ mounted /\ tabValue = 0
    /\ message' = "reset"
    /\ UNCHANGED <<tabValue, formData, errors, pending, homeTimers, page>>

\* Fault: validateForm without the password length check.
SubmitShortPassword ==
    /\ mounted /\ pending = NoRequest
    /\ homeTimers < MaxTimers
    /\ LET e == [validateForm(formData, tabValue) EXCEPT !.password =
                    IF formData.password = <<>> THEN "required" ELSE ""]
       IN /\ errors' = e
          /\ pending' = IF e = NoErrors
                        THEN [op |-> tabValue, data |-> formData, live |-> TRUE]
                        ELSE NoRequest
    /\ UNCHANGED <<tabValue, formData, message, homeTimers, page>>

\* handleSubmit (the button is disabled while AuthContext is loading):
\* setErrors(validateForm()), and with no errors login(email, password) on
\* the login tab or signup(...) on the other, which await their timer.
HandleSubmit ==
    /\ mounted /\ pending = NoRequest
    /\ homeTimers < MaxTimers
    /\ LET e == validateForm(formData, tabValue)
       IN /\ errors' = e
          /\ pending' = IF e = NoErrors
                        THEN [op |-> tabValue, data |-> formData, live |-> TRUE]
                        ELSE NoRequest
    /\ UNCHANGED <<tabValue, formData, message, homeTimers, page>>

\* Fault: a successful login that never arms the redirect.
LoginResolvesNoRedirect ==
    /\ pending # NoRequest /\ pending.op = 0
    /\ pending' = NoRequest
    /\ message' = IF pending.live THEN "loginOk" ELSE message
    /\ UNCHANGED <<tabValue, formData, errors, homeTimers, page>>

\* login returns { success: true }: setMessage, then setTimeout(navigate('/'),
\* 1500), armed even when the page that awaited is gone (its setState is).
LoginResolves ==
    /\ pending # NoRequest /\ pending.op = 0
    /\ pending' = NoRequest
    /\ message' = IF pending.live THEN "loginOk" ELSE message
    /\ homeTimers' = homeTimers + 1
    /\ UNCHANGED <<tabValue, formData, errors, page>>

\* signup returns { success: true }: setMessage, setTabValue(0) and a form
\* holding only the email, read from the formData of the submit's render.
SignupResolves ==
    /\ pending # NoRequest /\ pending.op = 1
    /\ pending' = NoRequest
    /\ IF pending.live
       THEN /\ message' = "signupOk"
            /\ tabValue' = 0
            /\ formData' = [EmptyForm EXCEPT !.email = pending.data.email]
       ELSE UNCHANGED <<message, tabValue, formData>>
    /\ UNCHANGED <<errors, homeTimers, page>>

\* A redirect timer fires: navigate('/') unmounts the LoginPage shown.
RedirectHome ==
    /\ homeTimers > 0
    /\ homeTimers' = homeTimers - 1
    /\ page' = "home"
    /\ pending' = IF pending = NoRequest THEN pending ELSE [pending EXCEPT !.live = FALSE]
    /\ UNCHANGED <<tabValue, formData, errors, message>>

\* A Header link (logo, Products, a category, the cart): the LoginPage, if
\* shown, unmounts and drops the state updates of its pending request.
Leave(to) ==
    /\ to # page
    /\ page' = to
    /\ pending' = IF pending # NoRequest /\ mounted
                  THEN [pending EXCEPT !.live = FALSE] ELSE pending
    /\ UNCHANGED <<tabValue, formData, errors, message, homeTimers>>

\* The user opens /login again: a fresh LoginPage with its initial state.
Remount ==
    /\ ~mounted
    /\ page' = "login"
    /\ tabValue' = 0 /\ formData' = EmptyForm /\ errors' = NoErrors /\ message' = ""
    /\ UNCHANGED <<pending, homeTimers>>

Init ==
    /\ tabValue = 0 /\ formData = EmptyForm /\ errors = NoErrors /\ message = ""
    /\ pending = NoRequest /\ homeTimers = 0 /\ page = "login"

Next ==
    \/ \E f \in Fields : \E v \in Values(f) : HandleInputChange(f, v)
    \/ \E t \in {0, 1} : HandleTabChange(t)
    \/ ToggleTabLink \/ ForgotPassword
    \/ \E p \in Providers : SocialLogin(p)
    \/ HandleSubmit
    \/ LoginResolves \/ SignupResolves \/ RedirectHome \/ Remount
    \/ \E to \in {"home", "other"} : Leave(to)

Spec == Init /\ [][Next]_vars
          /\ WF_vars(LoginResolves) /\ WF_vars(SignupResolves) /\ WF_vars(RedirectHome)

-----------------------------------------------------------------------------
Request == [op : {0, 1}, data : [Fields -> Emails \cup Passwords \cup Names],
            live : BOOLEAN]

TypeOK ==
    /\ tabValue \in {0, 1}
    /\ \A f \in Fields : formData[f] \in Values(f) \cup {<<>>}
    /\ errors \in [Fields -> {"", "required", "invalid", "short", "mismatch"}]
    /\ message \in {"", "loginOk", "signupOk", "reset"} \cup Providers
    /\ pending \in Request \cup {NoRequest}
    /\ homeTimers \in 0..MaxTimers /\ page \in {"login", "home", "other"}

(* The regex's meaning, stated over positions: an '@' with a non-space    *)
(* before it, a '.' after at least one more character, and a non-space   *)
(* after the '.', with no space between the '@' and the '.'.              *)
WellFormedEmail(s) ==
    \E p, q \in DOMAIN s :
        /\ s[p] = "@" /\ s[q] = "."
        /\ p > 1 /\ ~IsSpace(s[p - 1])
        /\ q >= p + 2 /\ \A i \in p + 1..q - 1 : ~IsSpace(s[i])
        /\ q < Len(s) /\ ~IsSpace(s[q + 1])

EmailProbesAgree == \A s \in EmailProbes : EmailPattern(s) = WellFormedEmail(s)

\* validateForm's email test (/\S+@\S+\.\S+/) accepts exactly the texts that
\* contain some non-space, '@', non-spaces, '.', non-space run: checked on
\* every short text over letters, '@', '.' and space, and on the email the
\* form holds.
EmailPatternMatchesReference ==
    /\ EmailProbesAgree
    /\ EmailPattern(formData.email) = WellFormedEmail(formData.email)

\* spec.md 7: a login or signup is only started with a form that passes
\* client-side validation: a well-formed email, a password of at least six
\* characters and, for a signup, both names and a matching confirmation.
\* The form can be edited, the tab switched and the page left while the
\* request awaits; what was submitted must still have been valid.
SubmittedFormValid ==
    pending # NoRequest =>
        LET d == pending.data
        IN /\ WellFormedEmail(d.email)
           /\ Len(d.password) >= 6
           /\ pending.op = 1 => /\ d.firstName # <<>> /\ d.lastName # <<>>
                               /\ d.confirmPassword = d.password

\* An inline error shown under the email, password or name fields is the
\* one validateForm would give for the text now in that field: typing
\* clears it, a tab change clears all, and the link that switches tabs or
\* a finished signup that empties the form must not leave one stale.
FieldErrorsCurrent ==
    mounted =>
        \A f \in Shown(tabValue) \ {"confirmPassword"} :
            errors[f] # "" => errors[f] = validateForm(formData, 1)[f]

\* A login that validates brings the user to the home page: its timer
\* fires, and the redirect it arms fires even if the page was left for
\* another route, or left and entered again.
LoginReachesHome ==
    (pending # NoRequest /\ pending.op = 0) ~> page = "home"
=============================================================================
