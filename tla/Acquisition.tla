----------------------------- MODULE Acquisition -----------------------------
(***************************************************************************)
(* acquire_source: a list is acquired by the method its configuration      *)
(* names, by a crawl, from an API, with a browser or by a download. Each   *)
(* method keeps files and promises of its own; the variables of the others *)
(* stay as they are.                                                       *)
(***************************************************************************)
EXTENDS Crawl, ApiCollect, Bypass, Download

CONSTANT Methods  \* the acquisition methods to consider

ASSUME MethodsAssumption == Methods \subseteq {"CRAWLER", "API", "BYPASS", "DOWNLOAD"}

VARIABLE method   \* download_method of the list

vars == <<method, crawlVars, apiVars, bypassVars, downloadVars>>

TypeOK ==
  /\ method \in Methods
  /\ CrawlTypeOK /\ ApiTypeOK /\ BypassTypeOK /\ DownloadTypeOK

\* A method that is not in use keeps a state nothing was acquired in.
CrawlUnused ==
  /\ CrawlInit
  /\ setup = CHOOSE s \in Setups : TRUE
  /\ listing = CHOOSE l \in Listings : TRUE

ApiUnused ==
  /\ ApiInit
  /\ api = CHOOSE s \in ApiSetups : TRUE
  /\ feed = [e \in Endpoints |-> {}]

BypassUnused ==
  /\ BypassInit
  /\ recipe = CHOOSE r \in Recipes : TRUE
  /\ links = Popup

DownloadUnused == DownloadInit /\ resolver = CHOOSE r \in Resolvers : TRUE

Init ==
  /\ method \in Methods
  /\ IF method = "CRAWLER" THEN CrawlInit ELSE CrawlUnused
  /\ IF method = "API" THEN ApiInit ELSE ApiUnused
  /\ IF method = "BYPASS" THEN BypassInit ELSE BypassUnused
  /\ IF method = "DOWNLOAD" THEN DownloadInit ELSE DownloadUnused

Next ==
  \/ method = "CRAWLER" /\ CrawlNext /\ UNCHANGED <<method, apiVars, bypassVars, downloadVars>>
  \/ method = "API" /\ ApiNext /\ UNCHANGED <<method, crawlVars, bypassVars, downloadVars>>
  \/ method = "BYPASS" /\ BypassNext /\ UNCHANGED <<method, crawlVars, apiVars, downloadVars>>
  \/ method = "DOWNLOAD" /\ DownloadNext /\ UNCHANGED <<method, crawlVars, apiVars, bypassVars>>

Spec == Init /\ [][Next]_vars
=============================================================================
