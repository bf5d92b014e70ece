--------------------------- MODULE AuthProperties ---------------------------
(***************************************************************************)
(* What the Auth facade promises over any interleaving of its operations,  *)
(* and what the repository's documents say of it.                          *)
(***************************************************************************)
EXTENDS Auth

\* begin_registration looks the address up in one call and stores the user in
\* another; two racing registrations still never create two accounts with one
\* address.
EmailUnique ==
    \A u, v \in Users :
        get_user_by_id(u) /\ users[u].email = users[v].email => u = v

\* A registration link is handed out only for an account that is in the table.
\* auth.h promises "an error if the email is already registered" instead.
RegistrationLinkHasUser ==
    \A n \in Nonces :
        grants[n].kind = "Register" => get_user_by_id(grants[n].user)

\* A session token is issued only for a stored user and a device registered to
\* that user, by whichever operation issued it.
SessionNamesOwnDevice ==
    \A s \in sessions :
        get_user_by_id(s.user) /\ devices[s.device].owner = s.user

\* When complete_reset with revoke_all_on_reset comes to register the new key,
\* every device it found on the account is revoked, whatever ran in between.
ResetRevokedListed ==
    \A t \in Threads :
        pc[t] = "add_device" =>
            \A d \in loc[t].listed : devices[d].revoked

----------------------------------------------------------------------------

\* Every interleaving of the multi-call operations changes the two tables the
\* way AccountRegistry's atomic operations do: no duplicate account, no device
\* of a missing account, no device that changes its account or comes back.
Registry == INSTANCE AccountRegistry
ImplementsRegistry == Registry!Spec

\* An account becomes active, and a key becomes registered to an account,
\* only in an operation that presented a link issued for that very account and
\* of the right purpose.
AccountChangesNeedLink ==
    [][/\ \A u \in Users :
             users[u].active' /\ ~users[u].active =>
                 \E t \in Threads :
                     /\ loc[t].grant # None
                     /\ grants[loc[t].grant].kind = "Register"
                     /\ grants[loc[t].grant].user = u
       /\ \A d \in KeyDevices :
             devices[d].owner' # devices[d].owner =>
                 \E t \in Threads :
                     /\ loc[t].grant # None
                     /\ grants[loc[t].grant].kind \in
                           {"Register", "Reset", "AddDevice"}
                     /\ grants[loc[t].grant].user = devices[d].owner']_vars

\* A device is revoked only by a request that authenticated as its account.
OnlyOwnerRevokes ==
    [][\A d \in Devices :
          devices[d].revoked' /\ ~devices[d].revoked =>
              \E t \in Threads :
                  d \in loc[t].todo /\ loc[t].user = devices[d].owner]_vars

\* The step in which resolve_session accepts a bearer token.
Accepts(t) ==
    /\ ResolveDevice(t)
    /\ DeviceLive(loc[t].user, loc[t].device)
    /\ loc[t].op \notin {"create_session", "otp_login"}

\* resolve_session reads the user and the device in two calls.  A token that
\* is accepted was good at one single moment during the request: when the user
\* was read and found active, the device was registered to that user and not
\* revoked.
AcceptedSessionWasLive == [][\A t \in Threads : Accepts(t) => loc[t].live]_vars

EndsOtpLogin(t) ==
    loc[t].op = "otp_login" /\ loc[t].user # None /\ pc'[t] = "idle"

HasCause(t) ==
    \/ StorageMayFail
    \/ Restart
    \/ ~users[loc[t].user].active
    \/ devices[loc[t].device].revoked
    \/ pc[t] = "resolve_device" /\ DeviceLive(loc[t].user, loc[t].device)

\* A login by OTP has spent its code before it looks up or stores its device.
\* If no storage call fails it ends without a session only because the account
\* is inactive, the device revoked or signing failed: racing first logins of an
\* account all find the device in place when they come to create_session,
\* although the add_device of all but one may be refused.
SpentCodeLogsIn == [][\A t \in Threads : EndsOtpLogin(t) => HasCause(t)]_vars

----------------------------------------------------------------------------
(* Statements of the documents and header comments about the code.         *)

\* "initial account creation via HMAC-signed one-time tokens" (intro.md): a
\* registration link opens at most one session.
RegistrationLinkOneTime ==
    \A n \in Nonces : grants[n].kind = "Register" => redeemed[n] <= 1

\* "Challenges are single-use" (README.md): a login challenge opens at most
\* one session.
ChallengeSingleUse ==
    \A n \in Nonces : grants[n].kind = "Challenge" => redeemed[n] <= 1

\* "Revoke a device -- requires an active session from another device"
\* (auth.h, revoke_device).
RevokedFromAnotherDevice ==
    [][\A t \in Threads :
          Revoke(t) /\ loc[t].op = "revoke_device" =>
              loc[t].device \notin loc[t].todo]_vars

\* "an already-issued token from that device remains valid until it naturally
\* expires" (security/overview.md): verify_session does not refuse an unexpired
\* token because its device was revoked.
RevokedDeviceTokenStaysValid ==
    [][\A t \in Threads :
          /\ ResolveDevice(t) /\ loc[t].op = "verify_session"
          /\ devices[loc[t].device].owner = loc[t].user
          => DeviceLive(loc[t].user, loc[t].device)]_vars

\* "If AuthConfig::revoke_all_on_reset is true, all existing devices are
\* revoked" (auth.h, complete_reset): when a reset hands out a session, every
\* other device of the account is revoked.
ResetRevokesOthers ==
    [][\A t \in Threads :
          AddDevice(t) /\ loc[t].op = "complete_reset" /\ sessions' # sessions =>
              \A d \in get_devices(loc[t].user) : devices[d].revoked]_vars

\* "Returns an active session on success" (auth.h, complete_registration): the
\* session a registration hands out is for its own, unrevoked device.
RegistrationSessionIsActive ==
    [][\A t \in Threads :
          /\ AddDevice(t) /\ loc[t].op = "complete_registration"
          /\ sessions' # sessions
          => /\ devices'[loc[t].device].owner = loc[t].user
             /\ ~devices'[loc[t].device].revoked]_vars
=============================================================================
