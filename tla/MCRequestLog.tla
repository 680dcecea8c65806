---------------------------- MODULE MCRequestLog ----------------------------
(* Requests share nothing but the server: one, with a cap of two attributes *)
(* and calls of up to three.                                                *)
EXTENDS RequestLog

MCKeys == {"", "id", "outcome", "key_hash", "API-Key", "credentials_encrypted"}
MCNameOf == [k \in MCKeys |-> IF k = "API-Key" THEN "api_key" ELSE k]
MCProtected == {"api_key", "key_hash", "credentials_encrypted"}
MCAttrs == [key : MCKeys, value : Values]
MCCalls == {<<Attr("id", "scalar")>>,
            <<Attr("API-Key", "scalar"), Attr("outcome", "redacted")>>,
            <<Attr("outcome", "deep"), Attr("", "scalar"), Attr("id", "redacted")>>,
            <<Attr("id", "apiKey"), Attr("outcome", "scalar"), Attr("id", "any")>>}
MCRoutes == {"/healthz", "/work"}
MCCodes == {204, 503}
=============================================================================
