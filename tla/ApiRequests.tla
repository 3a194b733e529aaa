---------------------------- MODULE ApiRequests ----------------------------
(* What the modules of the governed API have in common. *)
CONSTANTS
    Request,    \* requests that run at the same time, each on a thread of its own
    User        \* identities (SENTINEL_AUTH_USERS_JSON)
=============================================================================
