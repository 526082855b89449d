-------------------------------- MODULE Bypass --------------------------------
(***************************************************************************)
(* The collection of a protected source: a browser opens the page, runs    *)
(* the configured actions one after the other and saves an artifact.       *)
(* Files appear on disk step by step, and the process may die in between.  *)
(***************************************************************************)
EXTENDS Integers, Sequences

CONSTANTS
  Popup,         \* the popup links the page may show
  Recipes,       \* the bypass configurations to consider
  MaxListPages,  \* max_pages of the paginated save
  SitePages,     \* pages the paginated site has, it repeats the last one
  MaxVersion,    \* bound: states of the site
  MaxRun         \* bound: collections

ASSUME BypassAssumption == {MaxListPages, SitePages, MaxVersion, MaxRun} \subseteq Nat \ {0}

VARIABLES
  recipe,    \* actions and navigation mode of the list
  version,   \* the state of the site
  links,     \* the popup links the page shows
  disk,      \* disk[name]: content of the file, a function from names
  browse,    \* local state of the running collection
  runs,      \* collections begun; a run takes longer than the second in its names
  handed,    \* the file the caller was given by the last collection, <<>> if none
  since      \* history: version at the navigation, the links found, whether every
             \* listing page answered from an unchanged site

bypassVars == <<recipe, version, links, disk, browse, runs, handed, since>>

SaveKind == {"save_html", "save_json", "save_paginated_html", "save_pdf", "embed_images",
             "save_image"}
ActionKind ==
  {"navigate", "wait", "execute_js", "await_js", "collect_popup_profiles"} \cup SaveKind

Recipe == [actions : Seq(ActionKind), mode : {"safe_get", "uc_open"}]

\* await_js is execute_js with await: true. Only its failure is raised, and only
\* under uc_open: evaluateAwait elsewhere, and executeScript everywhere, log it.
Reports(r, kind) == kind = "await_js" /\ r.mode = "uc_open"

\* What an action prepares in the page, and the actions that show the site anew.
Prepares(r, kind) == kind = "collect_popup_profiles" \/ Reports(r, kind)
Reload == {"navigate", "save_json", "save_pdf", "save_image"}

\* The configurations save once, at the end, and what they prepared.
ASSUME RecipesAssumption ==
  \A r \in Recipes :
    /\ r \in Recipe
    /\ \E i \in DOMAIN r.actions : r.actions[i] \in SaveKind
    /\ \A i, j \in DOMAIN r.actions : i < j =>
         r.actions[i] \notin SaveKind /\ (Prepares(r, r.actions[i]) => r.actions[j] \notin Reload)

\* What the browser shows, and what a saved artifact holds of it.
PageBody == (1..MaxVersion) \X (0..SitePages)
Dom == [seen : 1..MaxVersion, scripted : BOOLEAN, profiles : SUBSET Popup, bodies : Seq(PageBody)]

Opened == [seen |-> version, scripted |-> FALSE, profiles |-> {}, bodies |-> <<>>]

\* published counts the files of a capture that are in place.
Closed == [pc |-> "idle", step |-> 1, dom |-> <<>>, keys |-> {}, snapshots |-> {},
           bodies |-> <<>>, published |-> 0, saved |-> <<>>]

Action == recipe.actions[browse.step]
Acting(kind) == browse.pc = "act" /\ browse.step <= Len(recipe.actions) /\ Action = kind

\* File names hold the second or a random part: they differ between runs.
Name(kind) == <<kind, runs>>
Holds(name) == name \in DOMAIN disk

Put(files, name, data, whole) ==
  [n \in DOMAIN files \cup {name} |->
     IF n = name THEN [data |-> data, whole |-> whole] ELSE files[n]]

FileKind == {"html", "part", "pending", "save_pdf", "embed_images", "image", "source", "manifest"}
FileName == FileKind \X (1..MaxRun)
File == [data : Dom, whole : BOOLEAN]
Browse ==
  [pc : {"idle", "act", "popups", "pages", "write", "publish"}, step : Nat, dom : Dom \cup {<<>>},
   keys : SUBSET Popup, snapshots : SUBSET Popup, bodies : Seq(PageBody), published : 0..3,
   saved : FileName \cup {<<>>}]

BypassTypeOK ==
  /\ recipe \in Recipes /\ version \in 1..MaxVersion /\ links \subseteq Popup
  /\ browse \in Browse /\ browse.step >= 1
  /\ browse.pc # "idle" => browse.dom \in Dom
  /\ disk \in [DOMAIN disk -> File] /\ DOMAIN disk \subseteq FileName
  /\ runs \in 0..MaxRun /\ handed \in {<<>>} \cup DOMAIN disk
  /\ since \in [version : 1..MaxVersion, keys : SUBSET Popup, steady : BOOLEAN]

BypassInit ==
  /\ recipe \in Recipes
  /\ version = 1 /\ links \in SUBSET Popup \ {{}}
  /\ disk = <<>> /\ browse = Closed /\ runs = 0 /\ handed = <<>>
  /\ since = [version |-> 1, keys |-> {}, steady |-> TRUE]

(***************************************************************************)
(* The source                                                              *)
(***************************************************************************)
ChangeSite ==
  /\ version < MaxVersion /\ version' = version + 1
  /\ since' = [since EXCEPT !.steady = FALSE]
  /\ UNCHANGED <<recipe, links, disk, browse, runs, handed>>

\* The page in the browser takes a link away or adds one.
ChangeLinks(k) ==
  /\ browse.pc = "popups"
  /\ links' = IF k \in links THEN links \ {k} ELSE links \cup {k}
  /\ UNCHANGED <<recipe, version, disk, browse, runs, handed, since>>

(***************************************************************************)
(* Collection                                                              *)
(***************************************************************************)
\* collect, up to the loaded page.
OpenPage ==
  /\ browse.pc = "idle" /\ runs < MaxRun
  /\ runs' = runs + 1 /\ handed' = <<>>
  /\ browse' = [Closed EXCEPT !.pc = "act", !.dom = Opened]
  /\ since' = [version |-> version, keys |-> {}, steady |-> TRUE]
  /\ UNCHANGED <<recipe, version, links, disk>>

Advance(b) == [b EXCEPT !.pc = "act", !.step = @ + 1]

NavigateOrWait ==
  /\ Acting("navigate") \/ Acting("wait")
  /\ browse' = Advance([browse EXCEPT !.dom = IF Action = "navigate" THEN Opened ELSE @])
  /\ UNCHANGED <<recipe, version, links, disk, runs, handed, since>>

\* A script fails, and the action answers True all the same, unless the failure
\* is reported (then it is an ActionFails).
ExecuteJs ==
  /\ Acting("execute_js") \/ Acting("await_js")
  /\ \E ran \in {TRUE, Reports(recipe, Action)} :
       browse' = Advance([browse EXCEPT !.dom.scripted = @ \/ ran])
  /\ UNCHANGED <<recipe, version, links, disk, runs, handed, since>>

(***************************************************************************)
(* Popups                                                                  *)
(***************************************************************************)
DiscoverKeys ==
  /\ Acting("collect_popup_profiles") /\ links # {}
  /\ browse' = [browse EXCEPT !.pc = "popups", !.keys = links, !.snapshots = {}]
  /\ since' = [since EXCEPT !.keys = links]
  /\ UNCHANGED <<recipe, version, links, disk, runs, handed>>

OpenPopup(k) ==
  /\ browse.pc = "popups" /\ k \in (browse.keys \ browse.snapshots) \cap links
  /\ browse' = [browse EXCEPT !.snapshots = @ \cup {k}]
  /\ UNCHANGED <<recipe, version, links, disk, runs, handed, since>>

\* Mutant: the container takes the popups that are still on the page.
InsertPopupsPresent ==
  /\ browse.pc = "popups" /\ browse.keys \cap links \subseteq browse.snapshots
  /\ browse' = Advance([browse EXCEPT !.dom.profiles = browse.snapshots])
  /\ UNCHANGED <<recipe, version, links, disk, runs, handed, since>>

\* All snapshots replace what the container held.
InsertPopups ==
  /\ browse.pc = "popups" /\ browse.snapshots = browse.keys
  /\ browse' = Advance([browse EXCEPT !.dom.profiles = browse.snapshots])
  /\ UNCHANGED <<recipe, version, links, disk, runs, handed, since>>

(***************************************************************************)
(* Saving in place: HTML, JSON, paginated HTML                             *)
(***************************************************************************)
Write(data) == [browse EXCEPT !.pc = "write", !.dom = data]

\* open(.., "w") and the text so far.
BeginSave ==
  /\ Acting("save_html") \/ Acting("save_json")
  /\ LET data == IF Action = "save_json" THEN Opened ELSE browse.dom
     IN  /\ browse' = Write(data)
         /\ disk' = Put(disk, Name("html"), data, FALSE)
  /\ UNCHANGED <<recipe, version, links, runs, handed, since>>

BeginPages ==
  /\ Acting("save_paginated_html")
  /\ browse' = [browse EXCEPT !.pc = "pages", !.bodies = << <<browse.dom.seen, 1>> >>]
  /\ UNCHANGED <<recipe, version, links, disk, runs, handed, since>>

NextBody ==
  LET n == Len(browse.bodies) + 1
  IN  <<version, IF n < SitePages THEN n ELSE SitePages>>

\* fetchText does not look at the status: the text of an error page is a page.
ErrorBody == <<version, 0>>

Repeated(body) == \E i \in DOMAIN browse.bodies : browse.bodies[i] = body

\* A new page is appended.
FetchPage(body) ==
  /\ browse.pc = "pages" /\ Len(browse.bodies) < MaxListPages
  /\ body \in {NextBody, ErrorBody} /\ ~Repeated(body)
  /\ browse' = [browse EXCEPT !.bodies = Append(@, body)]
  /\ since' = [since EXCEPT !.steady = @ /\ body = NextBody]
  /\ UNCHANGED <<recipe, version, links, disk, runs, handed>>

SavePages(answered) ==
  LET data == [browse.dom EXCEPT !.bodies = browse.bodies]
  IN  /\ browse' = Write(data)
      /\ disk' = Put(disk, Name("html"), data, FALSE)
      /\ since' = [since EXCEPT !.steady = @ /\ answered]
      /\ UNCHANGED <<recipe, version, links, runs, handed>>

\* max_pages, or a page that came before.
EndPages ==
  /\ browse.pc = "pages"
  /\ Repeated(NextBody) \/ Repeated(ErrorBody) \/ Len(browse.bodies) >= MaxListPages
  /\ SavePages(TRUE)

\* An answer without text ends the list too.
PageUnanswered ==
  /\ browse.pc = "pages" /\ Len(browse.bodies) < MaxListPages
  /\ SavePages(FALSE)

EndSave ==
  /\ browse.pc = "write"
  /\ disk' = Put(disk, Name("html"), browse.dom, TRUE)
  /\ browse' = Advance([browse EXCEPT !.saved = Name("html")])
  /\ UNCHANGED <<recipe, version, links, runs, handed, since>>

(***************************************************************************)
(* Saving through another name: PDF, embedded images, image with sidecars  *)
(***************************************************************************)
\* The payload was fetched whole and checked; it is written to a .part file.
WritePart(kind) ==
  /\ Acting(kind) /\ kind \in {"save_pdf", "embed_images"}
  /\ LET data == IF kind = "save_pdf" THEN Opened ELSE browse.dom
     IN  /\ disk' = Put(disk, Name("part"), data, FALSE)
         /\ browse' = [browse EXCEPT !.pc = "publish", !.dom = data,
                         !.saved = IF kind = "embed_images" THEN <<>> ELSE @]
  /\ UNCHANGED <<recipe, version, links, runs, handed, since>>

Without(files, names) == [n \in DOMAIN files \ names |-> files[n]]

ReplacePart ==
  /\ browse.pc = "publish" /\ Action \in {"save_pdf", "embed_images"}
  /\ disk' = Put(Without(disk, {Name("part")}), Name(Action), browse.dom, TRUE)
  /\ browse' = Advance([browse EXCEPT !.saved = Name(Action)])
  /\ UNCHANGED <<recipe, version, links, runs, handed, since>>

\* Image, page and manifest are written, one file after the other, to a directory
\* of their own; nobody looks into it, so its files appear at one moment here and
\* what a kill leaves in it is not told apart.
WriteCapture ==
  /\ Acting("save_image")
  /\ browse' = [browse EXCEPT !.pc = "publish", !.saved = <<>>, !.dom = Opened, !.published = 0]
  /\ disk' = Put(disk, Name("pending"), Opened, FALSE)
  /\ UNCHANGED <<recipe, version, links, runs, handed, since>>

\* Mutant: the image goes first.
CaptureOrderImageFirst == <<"image", "source", "manifest">>

CaptureOrder == <<"source", "manifest", "image">>

PublishCapture ==
  /\ browse.pc = "publish" /\ Action = "save_image"
  /\ LET i    == browse.published + 1
         kind == CaptureOrder[i]
         done == [browse EXCEPT !.published = i]
     IN  IF i < Len(CaptureOrder)
         THEN disk' = Put(disk, Name(kind), browse.dom, TRUE) /\ browse' = done
         ELSE /\ disk' = Put(Without(disk, {Name("pending")}), Name(kind), browse.dom, TRUE)
              /\ browse' = Advance([done EXCEPT !.saved = Name("image")])
  /\ UNCHANGED <<recipe, version, links, runs, handed, since>>

(***************************************************************************)
(* The end                                                                 *)
(***************************************************************************)
Finished == browse.pc = "act" /\ browse.step > Len(recipe.actions)

\* _validateArtifact passed; without a saved file the collection failed.
ReturnArtifact ==
  /\ Finished /\ handed' = browse.saved /\ browse' = Closed
  /\ UNCHANGED <<recipe, version, links, disk, runs, since>>

\* The action answers False or raises, or the artifact is refused. What it
\* published of a capture is taken back, .part files are removed, files
\* written in place stay.
ActionFails ==
  /\ browse.pc # "idle" /\ browse' = Closed
  /\ disk' = Without(disk, {Name("part"), Name("pending")} \cup
               IF browse.pc = "publish" THEN {Name(CaptureOrder[i]) : i \in 1..browse.published} ELSE {})
  /\ UNCHANGED <<recipe, version, links, runs, handed, since>>

\* The process is killed: everything stays on disk.
KillCollector ==
  /\ browse.pc # "idle" /\ browse' = Closed
  /\ UNCHANGED <<recipe, version, links, disk, runs, handed, since>>

BypassNext ==
  \/ ChangeSite \/ \E k \in Popup : ChangeLinks(k) \/ OpenPopup(k)
  \/ OpenPage \/ NavigateOrWait \/ ExecuteJs \/ DiscoverKeys \/ InsertPopups
  \/ BeginSave \/ BeginPages \/ FetchPage(NextBody) \/ FetchPage(ErrorBody)
  \/ EndPages \/ PageUnanswered \/ EndSave
  \/ \E kind \in {"save_pdf", "embed_images"} : WritePart(kind)
  \/ ReplacePart \/ WriteCapture \/ PublishCapture
  \/ ReturnArtifact \/ ActionFails \/ KillCollector

BypassSpec == BypassInit /\ [][BypassNext]_bypassVars

(***************************************************************************)
(* Properties                                                              *)
(***************************************************************************)
Has(kind) == \E i \in DOMAIN recipe.actions : recipe.actions[i] = kind

\* A file that the caller is given was written to its end by this collection,
\* shows the source no older than the navigation, and holds what the actions
\* before the save prepared: every popup found, the effect of a script that was
\* awaited under uc_open, and of a paginated list every page once, in order, when
\* the site stood still, answered, and has no more than max_pages. The effect of
\* any other script may be missing: its failure is logged and the page is saved.
Whole(file) ==
  /\ file.whole /\ file.data.seen >= since.version
  /\ Has("collect_popup_profiles") => file.data.profiles = since.keys
  /\ Has("await_js") /\ recipe.mode = "uc_open" => file.data.scripted
  /\ Has("save_paginated_html") /\ since.steady /\ SitePages <= MaxListPages =>
       file.data.bodies = [i \in 1..SitePages |-> <<file.data.seen, i>>]

HandedIsWhole == handed # <<>> => Whole(disk[handed])

\* Under the name of a PDF, a snapshot or an image stands a whole file, and with
\* the image its page and its manifest, whenever the process died.
PublishedIsWhole ==
  \A name \in DOMAIN disk :
    /\ name[1] \in {"save_pdf", "embed_images", "image", "source", "manifest"} => disk[name].whole
    /\ name[1] = "image" => Holds(<<"source", name[2]>>) /\ Holds(<<"manifest", name[2]>>)

\* What the actions before the present one prepared is in the page; where the site
\* stood still, the listing pages read are its first ones.
PreparedInv ==
  browse.pc # "idle" =>
    /\ browse.dom.seen >= since.version /\ browse.dom.seen <= version
    /\ since.steady => version = since.version
    /\ \A i \in DOMAIN recipe.actions : i < browse.step =>
         /\ recipe.actions[i] = "await_js" /\ recipe.mode = "uc_open" => browse.dom.scripted
         /\ recipe.actions[i] = "collect_popup_profiles" /\ browse.pc # "popups" =>
              browse.dom.profiles = since.keys
    /\ browse.pc = "popups" => Action = "collect_popup_profiles" /\ browse.keys = since.keys

ReadPages(bodies) == bodies = [i \in 1..Len(bodies) |-> <<version, i>>] /\ Len(bodies) <= SitePages

SavingInv ==
  /\ browse.pc \in {"popups", "pages", "write", "publish"} => browse.step <= Len(recipe.actions)
  /\ browse.pc = "pages" => Action = "save_paginated_html" /\ (since.steady => ReadPages(browse.bodies))
  /\ browse.pc = "write" => Action \in {"save_html", "save_json", "save_paginated_html"}
  /\ browse.pc = "write" /\ Action = "save_paginated_html" /\ since.steady /\ SitePages <= MaxListPages =>
       browse.dom.bodies = [i \in 1..SitePages |-> <<version, i>>]
  /\ browse.pc = "publish" => Action \in {"save_pdf", "embed_images", "save_image"}

\* The file of a finished collection is whole, and the caller is given no other;
\* of a capture the image is never first.
FilesInv ==
  /\ PublishedIsWhole /\ HandedIsWhole
  /\ browse.pc = "idle" <=> browse = Closed
  /\ handed # <<>> => browse.pc = "idle"
  /\ \A name \in DOMAIN disk : name[2] <= runs
  /\ browse.pc # "idle" => runs > 0 /\ (browse.step <= Len(recipe.actions) => ~Holds(Name("image")))
  /\ browse.saved # <<>> =>
       Holds(browse.saved) /\ Whole(disk[browse.saved]) /\ browse.step > Len(recipe.actions)
  /\ browse.step <= Len(recipe.actions) => browse.published <= 2
  /\ browse.pc = "publish" /\ Action = "save_image" =>
       \A i \in 1..browse.published : Holds(Name(CaptureOrder[i]))

BypassIInv == BypassTypeOK /\ PreparedInv /\ SavingInv /\ FilesInv
=============================================================================
