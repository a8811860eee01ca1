------------------------------ MODULE AadToken -------------------------------
(***************************************************************************)
(* acquireCertificate (pkg/tools/aadssh: token.go, token_azure_cli.go,     *)
(* transport.go): how a run of aadssh asks AAD to certify its public key,  *)
(* interactively or with the refresh token of the Azure CLI, and all the   *)
(* ways in which that can end.                                             *)
(***************************************************************************)
EXTENDS Naturals, FiniteSets

(* cloudToAuthority and cloudToScope; the latter is looked up in lower case, but
   only after the former, so that a name in another case is not supported. *)
Clouds == {"azurecloud", "azurechinacloud", "azureusgovernment"}

Configs == [cloud : Clouds \cup {"AzureCloud"}, useAzureCLI : BOOLEAN]

(* An entry of the token cache: its type, whether it has a secret, and whether
   its home account is an object and a tenant with a dot between them. *)
Entries == [type : {"RefreshToken", "FamilyToken"}, secret : BOOLEAN, dotted : BOOLEAN]

(* The cache is absent, is not JSON, or is a map of entries. *)
Unreadable == {"missing", "undecodable"}
Caches == {[state |-> s, entries |-> {}] : s \in Unreadable} \cup [state : {"decoded"}, entries : SUBSET Entries]

-----------------------------------------------------------------------------
(* A request to AAD: its path, and the public key it asks to have certified
   (req_cnf); "none" for a request as MSAL makes it. *)
MsalRequest(path) == [path |-> path, key |-> "none"]

(* Transport.RoundTrip adds the request data to what goes to the token endpoint
   and leaves other requests (instance discovery) alone. *)
RoundTrip(request, data) == IF request.path = "token" THEN [request EXCEPT !.key = data] ELSE request

(* What AAD answers: a certificate for the key in the request, an access token
   when there is none (which is not a certificate), or a refusal. *)
Answers(request) == {"refused", IF request.key = "none" THEN "no certificate" ELSE "certificate"}

Interactive == Answers(RoundTrip(MsalRequest("token"), "own key"))

(* The first entry that the map yields of the right type is taken, and the map
   yields its entries in any order: Split(...)[1] panics without a dot, and an
   entry without a secret is not passed over. *)
AzureCLI(cache) ==
    LET Chosen == {e \in cache.entries : e.type = "RefreshToken"}
        Ends(e) == IF ~e.dotted THEN {"panic"}
                   ELSE IF ~e.secret THEN {"no token"}
                   ELSE Answers([path |-> "token", key |-> "own key"])
    IN IF cache.state \in Unreadable \/ Chosen = {} THEN {"no token"}
       ELSE UNION {Ends(e) : e \in Chosen}

AcquireCertificate(config, cache) ==
    IF config.cloud \notin Clouds THEN {"unsupported"}
    ELSE IF config.useAzureCLI THEN AzureCLI(cache)
    ELSE Interactive

Outcomes == UNION {AcquireCertificate(config, cache) : config \in Configs, cache \in Caches}
=============================================================================
