---------------------------- MODULE TelegramLogin ----------------------------
(***************************************************************************)
(* Logging in to Telegram: TelegramAuthClient of protofs-core/src/mtproto/ *)
(* real/auth.rs and qr.rs, called by the login commands of protofs-tauri/  *)
(* src/commands/auth.rs.  A code or a QR token is requested over a new     *)
(* connection, which becomes the transport when the login succeeds.        *)
(*                                                                         *)
(* Each caller is a command of the login page, which may be asked for      *)
(* again, or polls, before the last one has ended.  A route is the proxy a *)
(* connection goes through, Direct without one.                            *)
(***************************************************************************)
EXTENDS Naturals

CONSTANTS
    Callers, None,
    Budget          \* how many logins, commands and restarts are followed
VARIABLES
    authProxy,      \* TelegramAuthClient::proxy, for the connections to come
    pending,        \* TelegramAuthClient::pending: the login begun, or None
    holder,         \* who has the mutex of pending, or None
    login,          \* what each caller is doing
    connection,     \* the route of the transport's connection
    account,        \* an active account is registered
    calls           \* how many were made, at most Budget

loginVars == <<authProxy, pending, holder, login, connection, account, calls>>

Direct == <<>>
NoConnection == <<"none">>

Idle == [at |-> None, kind |-> None, via |-> Direct]
LoginAt(c, l) == login[c].at = l
Ends(c) == login' = [login EXCEPT ![c] = Idle]
Moves(c, l) == login' = [login EXCEPT ![c].at = l]

Spend == calls < Budget /\ calls' = calls + 1

\* init_grammers_client: a bridge that does not start leaves the connection
\* without a proxy.
Connected(route) == {route, Direct}

-----------------------------------------------------------------------------
\* send_code and request_qr_code: the proxy of this moment.
BeginLogin(c) ==
    /\ LoginAt(c, None) /\ Spend
    /\ \E kind \in {"phone", "qr"}, via \in Connected(authProxy) :
         login' = [login EXCEPT ![c] = [at |-> "request", kind |-> kind, via |-> via]]
    /\ UNCHANGED <<authProxy, pending, holder, connection, account>>

\* The answer: an error, or a token, which takes the place of a login begun
\* before.
Requested(c) ==
    /\ LoginAt(c, "request") /\ Ends(c)
    /\ \/ pending' = pending
       \/ /\ holder = None
          /\ pending' = [kind |-> login[c].kind, via |-> login[c].via, password |-> FALSE]
    /\ UNCHANGED <<authProxy, holder, connection, account, calls>>

\* verify_code, check_qr_code and verify_2fa keep the mutex while they wait
\* for the answer.  verify_2fa takes the password token out of the login
\* first.
Submit(c) ==
    /\ LoginAt(c, None) /\ holder = None /\ pending # None
    /\ holder' = c
    /\ \/ /\ Moves(c, pending.kind) /\ pending' = pending
       \/ /\ pending.password /\ Moves(c, "2fa")
          /\ pending' = [pending EXCEPT !.password = FALSE]
    /\ UNCHANGED <<authProxy, connection, account, calls>>

\* The login is over: its connection is handed to the command.
SignedIn(c) ==
    /\ login' = [login EXCEPT ![c] = [Idle EXCEPT !.at = "signed", !.via = pending.via]]
    /\ pending' = None

Refused(c, password) ==
    Ends(c) /\ pending' = [pending EXCEPT !.password = password]

Answered(c) ==
    /\ holder' = None
    /\ UNCHANGED <<authProxy, connection, account, calls>>

\* A wrong code and a request that failed leave the login as it was.
VerifyCode(c) ==
    /\ LoginAt(c, "phone") /\ Answered(c)
    /\ SignedIn(c) \/ Refused(c, TRUE) \/ Refused(c, pending.password)

\* So does a QR code that no one has scanned yet; its new token is shown.
CheckQrCode(c) ==
    /\ LoginAt(c, "qr") /\ Answered(c)
    /\ SignedIn(c) \/ Refused(c, TRUE) \/ Refused(c, pending.password)

\* check_2fa: a wrong password brings a new token and may be tried again, a
\* request that failed does not.
Verify2fa(c) ==
    /\ LoginAt(c, "2fa") /\ Answered(c)
    /\ SignedIn(c) \/ \E again \in BOOLEAN : Refused(c, again)

\* finalize_login: the connection first, the account after.
SwitchToReal(c) ==
    /\ LoginAt(c, "signed") /\ Moves(c, "register")
    /\ connection' = login[c].via
    /\ UNCHANGED <<authProxy, pending, holder, account, calls>>

RegisterAccount(c) ==
    /\ LoginAt(c, "register") /\ Ends(c)
    /\ account' = TRUE
    /\ UNCHANGED <<authProxy, pending, holder, connection, calls>>

LoginStep(c) ==
    \/ BeginLogin(c) \/ Requested(c) \/ Submit(c) \/ VerifyCode(c)
    \/ CheckQrCode(c) \/ Verify2fa(c) \/ SwitchToReal(c)

\* The password token can be used once, and only by who holds the login.
LoginTypeOK ==
    /\ pending = None \/ DOMAIN pending = {"kind", "via", "password"}
    /\ holder \in Callers \cup {None}
    /\ \A c \in Callers :
         login[c].at \in {"phone", "qr", "2fa"} <=> holder = c
    /\ holder # None => pending # None
    /\ account \in BOOLEAN
=============================================================================
