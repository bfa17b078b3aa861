---------------------------- MODULE IotUsername ----------------------------
(***************************************************************************)
(* The user name of an AWS IoT connection with a custom authorizer: a user *)
(* name followed by query parameters.  It is a sequence of tokens: names   *)
(* of users, the separators "?" and "&", and parameters.                   *)
(***************************************************************************)
EXTENDS Sequences, Functions

\* The parameters: the authorizer's name, the token under its key, its signature.
Parameters == {"authorizerName", "tokenValue", "tokenSignature"}

\* AddToUsernameParameter: "?" before the first parameter and "&" before the others.
\* A value that has the parameter's key already is taken as it is, so a parameter is
\* one token.
AddToUsernameParameter(u, p) == u \o <<IF "?" \in Range(u) THEN "&" ELSE "?", p>>

AddWhen(given, u, p) == IF given THEN AddToUsernameParameter(u, p) ELSE u

\* Two places of u that hold x are one.
AtMostOnce(u, x) == \A i, j \in DOMAIN u : u[i] = x /\ u[j] = x => i = j

=============================================================================
