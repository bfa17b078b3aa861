--------------------------- MODULE MCIotBuilders ---------------------------
(* Authorizer configurations with a complete token, part of one and none. *)
EXTENDS IotBuilders

MCConfigs ==
    {{}, {"username", "password", "authorizerName"}, {"authorizerName"}, {"tokenValue"},
     {"tokenKeyName", "tokenSignature"}, AuthFields}

=============================================================================
