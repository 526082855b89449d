------------------------------- MODULE Download -------------------------------
(***************************************************************************)
(* The download of a list from a URL: the address is fixed or looked up on *)
(* a page that names it, the answer is written to disk piece by piece, and *)
(* a failed attempt is repeated into the same file.                        *)
(***************************************************************************)
EXTENDS Integers, Sequences

CONSTANTS
  MaxEdition,   \* bound: the files the publisher offers in the course of time
  Chunks,       \* pieces of a file
  Attempts,     \* task.retry
  Resolvers,    \* the ways to find the address to consider
  MaxDownload   \* bound: downloads

ASSUME DownloadAssumption == {MaxEdition, Chunks, Attempts, MaxDownload} \subseteq Nat \ {0}

VARIABLES
  resolver,   \* "static", "link_text" or "json_list_filter"
  catalogue,  \* the editions offered now, in the order of the page that lists them
  fetch,      \* local state of the running download
  files,      \* files[n]: the pieces on disk of the n-th download, its name has the time
  delivered,  \* the download whose file the caller was given last, 0 if none
  newest      \* history: the newest edition when the download began

downloadVars == <<resolver, catalogue, fetch, files, delivered, newest>>

Edition == 1..MaxEdition
Newest(editions) ==
  LET offered == {editions[i] : i \in DOMAIN editions}
  IN  CHOOSE e \in offered : \A f \in offered : f <= e

\* received counts the pieces of the running answer.
Fetch == [pc : {"idle", "request", "body"}, edition : Edition, attempt : 0..Attempts, received : 0..Chunks]
NoFetch == [pc |-> "idle", edition |-> 1, attempt |-> 0, received |-> 0]

DownloadTypeOK ==
  /\ resolver \in Resolvers
  /\ catalogue \in Seq(Edition) /\ catalogue # <<>>
  /\ fetch \in Fetch /\ newest \in Edition
  /\ files \in Seq(Seq(Edition \X (1..Chunks))) /\ delivered \in 0..Len(files)

DownloadInit ==
  /\ resolver \in Resolvers /\ catalogue = <<1>>
  /\ fetch = NoFetch /\ files = <<>> /\ delivered = 0 /\ newest = 1

\* The publisher lists a new edition, in front or behind, or takes one down.
Publish ==
  /\ Newest(catalogue) < MaxEdition
  /\ LET e == Newest(catalogue) + 1
     IN  catalogue' \in {<<e>> \o catalogue, Append(catalogue, e), <<e>>}
  /\ UNCHANGED <<resolver, fetch, files, delivered, newest>>

\* resolve_url: the first matching link of a page, of a JSON list the entry with
\* the greatest id, or a fixed address, where the newest edition is found.
Resolved == IF resolver = "link_text" THEN Head(catalogue) ELSE Newest(catalogue)

\* A page without a match raises before anything is written: no step.
StartDownload ==
  /\ fetch = NoFetch /\ Len(files) < MaxDownload
  /\ fetch' = [pc |-> "request", edition |-> Resolved, attempt |-> 1, received |-> 0]
  /\ files' = Append(files, <<>>) /\ delivered' = 0 /\ newest' = Newest(catalogue)
  /\ UNCHANGED <<resolver, catalogue>>

\* Mutant: the attempt continues the file of the one before.
BodyAppends ==
  /\ fetch.pc = "request"
  /\ fetch' = [fetch EXCEPT !.pc = "body", !.received = 0,
                 !.edition = IF resolver = "static" THEN Newest(catalogue) ELSE @]
  /\ UNCHANGED <<resolver, catalogue, files, delivered, newest>>

\* requests.get answers 200, open(.., "wb") empties the file. A fixed address
\* may answer with another edition than it did to the attempt before.
Body ==
  /\ fetch.pc = "request"
  /\ fetch' = [fetch EXCEPT !.pc = "body", !.received = 0,
                 !.edition = IF resolver = "static" THEN Newest(catalogue) ELSE @]
  /\ files' = [files EXCEPT ![Len(files)] = <<>>]
  /\ UNCHANGED <<resolver, catalogue, delivered, newest>>

\* The next piece of the answer goes behind what is in the file.
Chunk ==
  /\ fetch.pc = "body" /\ fetch.received < Chunks
  /\ files' = [files EXCEPT ![Len(files)] = Append(@, <<fetch.edition, fetch.received + 1>>)]
  /\ fetch' = [fetch EXCEPT !.received = @ + 1]
  /\ UNCHANGED <<resolver, catalogue, delivered, newest>>

Downloaded ==
  /\ fetch.pc = "body" /\ fetch.received = Chunks
  /\ fetch' = NoFetch /\ delivered' = Len(files)
  /\ UNCHANGED <<resolver, catalogue, files, newest>>

\* A RequestException, in the request or in the body: the next attempt.
AttemptFails ==
  /\ fetch.pc # "idle" /\ fetch.attempt < Attempts
  /\ fetch' = [fetch EXCEPT !.pc = "request", !.attempt = @ + 1]
  /\ UNCHANGED <<resolver, catalogue, files, delivered, newest>>

\* The last attempt failed, another error, or the process is killed: what is on
\* disk stays there, nobody is given it.
DownloadFails ==
  /\ fetch.pc # "idle" /\ fetch' = NoFetch
  /\ UNCHANGED <<resolver, catalogue, files, delivered, newest>>

DownloadNext ==
  \/ Publish \/ StartDownload \/ Body \/ Chunk \/ Downloaded
  \/ AttemptFails \/ DownloadFails

DownloadSpec == DownloadInit /\ [][DownloadNext]_downloadVars

(***************************************************************************)
(* Properties                                                              *)
(***************************************************************************)
\* A file that is handed over is the whole of one answer, however many attempts
\* wrote into it and whatever the publisher changed between them; and unless a
\* page lists older editions first, it is no older than the newest at the start.
DownloadIsOneAnswer ==
  delivered # 0 =>
    \E e \in Edition :
      /\ files[delivered] = [i \in 1..Chunks |-> <<e, i>>]
      /\ resolver # "link_text" => e >= newest

\* While an attempt writes, the file of the download is what was received of it,
\* and nothing is handed over; the publisher's newest edition never gets older.
DownloadIInv ==
  /\ DownloadTypeOK /\ DownloadIsOneAnswer
  /\ fetch.pc = "idle" <=> fetch = NoFetch
  /\ newest <= Newest(catalogue)
  /\ fetch.pc # "idle" =>
       /\ files # <<>> /\ delivered = 0
       /\ resolver # "link_text" => fetch.edition >= newest
  /\ fetch.pc = "body" =>
       files[Len(files)] = [i \in 1..fetch.received |-> <<fetch.edition, i>>]
=============================================================================
