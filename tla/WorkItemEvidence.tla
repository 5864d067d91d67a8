--------------------------- MODULE WorkItemEvidence ---------------------------
(***************************************************************************)
(* A ticket's promotion to Plane, and the screenshots copied into the      *)
(* work item's description.                                                *)
(*                                                                         *)
(* promoteTicketToPlane reads the ticket, creates the work item, pushes    *)
(* the images the conversation has, and only then stores the link.         *)
(* attachPendingImagesToTicketNumber serves images that come later: it     *)
(* reads the description, pushes the images that are not yet marked, and   *)
(* writes the description it read with the images added.  Several of both  *)
(* may run at once: the plane-sync worker, the routes, and one webhook per *)
(* image.  Engineers edit descriptions in Plane.                           *)
(***************************************************************************)
EXTENDS Naturals, FiniteSets

CONSTANTS
    Promotion,      \* calls of promoteTicketToPlane
    Attach,         \* calls of attachPendingImagesToTicketNumber
    Image,          \* the conversation's image attachments
    Edit,           \* edits engineers make to a description
    MaxBreaks       \* bound: calls, uploads and writes that fail

ASSUME EvidenceAssumption ==
    /\ Promotion \cap (Attach \cup {"none", "absent", "ready"}) = {}
    /\ MaxBreaks \in Nat

Item == Promotion       \* a promotion creates one work item at most
Call == Promotion \cup Attach

VARIABLES
    link,       \* tickets.plane_issue_id, or "none"
    body,       \* descriptions of the work items made: what each shows
    image,      \* an attachment: not there, READY, or the item in its metadata
    typed,      \* the edits engineers have made
    op,         \* each call: where it is, its work item, the description it
                \* read, the images it has selected, and those uploaded
    breaks,     \* failures so far
    mingled     \* ghost: two calls, or a call and an edit, overlapped

evidenceVars == <<link, body, image, typed, op, breaks, mingled>>

Content == {"report"} \cup Image \cup Edit
NotStarted == [at |-> "new", item |-> "none", base |-> {}, left |-> {}, urls |-> {}]

EvidenceTypeOK ==
    /\ link \in {"none"} \cup Item
    /\ DOMAIN body \subseteq Item
    /\ \A i \in DOMAIN body : body[i] \subseteq Content
    /\ image \in [Image -> {"absent", "ready"} \cup Item]
    /\ typed \subseteq Edit
    /\ op \in [Call ->
          [at: {"new", "create", "select", "upload", "patch", "link", "over"},
           item: {"none"} \cup Item, base: SUBSET Content,
           left: SUBSET Image, urls: SUBSET Image]]
    /\ breaks \in Nat
    /\ mingled \in BOOLEAN

EvidenceInit ==
    /\ link = "none"
    /\ body = [i \in {} |-> {}]
    /\ image = [m \in Image |-> "absent"]
    /\ typed = {}
    /\ op = [c \in Call |-> NotStarted]
    /\ breaks = 0
    /\ mingled = FALSE

Running(c) == op[c].at \notin {"new", "over"}
Break == breaks < MaxBreaks /\ breaks' = breaks + 1
Over(c) == op' = [op EXCEPT ![c] = [NotStarted EXCEPT !.at = "over"]]
AfterPush(c) == IF c \in Promotion THEN "link" ELSE "over"
\* What a push leaves behind when it is over.
Pushed(c) ==
    op' = [op EXCEPT ![c] = [NotStarted EXCEPT !.at = AfterPush(c), !.item =
                                IF c \in Promotion THEN op[c].item ELSE "none"]]
Start(c) ==
    /\ op[c].at = "new"
    /\ mingled' = (mingled \/ \E d \in Call : Running(d))

-----------------------------------------------------------------------------
(* promoteTicketToPlane.                                                   *)

\* The ticket is read; one that has a work item is left alone.
Promote(c) ==
    /\ Start(c)
    /\ IF link = "none" THEN op' = [op EXCEPT ![c].at = "create"] ELSE Over(c)
    /\ UNCHANGED <<link, body, image, typed, breaks>>

CreateWorkItem(c) ==
    /\ op[c].at = "create"
    /\ body' = [i \in DOMAIN body \cup {c} |-> IF i = c THEN {"report"} ELSE body[i]]
    /\ op' = [op EXCEPT ![c] = [@ EXCEPT !.at = "select", !.item = c, !.base = {"report"}]]
    /\ UNCHANGED <<link, image, typed, breaks, mingled>>

\* The call fails; Plane may have made the work item all the same.
CreateFails(c) ==
    /\ op[c].at = "create"
    /\ Break
    /\ \/ body' = [i \in DOMAIN body \cup {c} |-> IF i = c THEN {"report"} ELSE body[i]]
       \/ UNCHANGED body
    /\ Over(c)
    /\ UNCHANGED <<link, image, typed, mingled>>

StoreLink(c) ==
    /\ op[c].at = "link"
    /\ link' = op[c].item
    /\ Over(c)
    /\ UNCHANGED <<body, image, typed, breaks, mingled>>

\* The error of the UPDATE is swallowed: "Optional if ticket inserted later".
StoreLinkFails(c) ==
    /\ op[c].at = "link"
    /\ Break
    /\ Over(c)
    /\ UNCHANGED <<link, body, image, typed, mingled>>

-----------------------------------------------------------------------------
(* attachPendingImagesToTicketNumber.                                      *)

\* Mutant: the description is taken to be the original one.
StartAttachUnfetched(c) ==
    /\ Start(c)
    /\ IF link = "none" THEN Over(c)
       ELSE op' = [op EXCEPT ![c] = [@ EXCEPT !.at = "select", !.item = link,
                                              !.base = {"report"}]]
    /\ UNCHANGED <<link, body, image, typed, breaks>>

\* A ticket without a work item has nothing to attach to; otherwise the
\* description is fetched before the images are selected and uploaded.
StartAttach(c) ==
    /\ Start(c)
    /\ IF link = "none" THEN Over(c)
       ELSE op' = [op EXCEPT ![c] = [@ EXCEPT !.at = "select", !.item = link,
                                              !.base = body[link]]]
    /\ UNCHANGED <<link, body, image, typed, breaks>>

AttachFails(c) ==
    /\ Start(c)
    /\ link # "none"
    /\ Break
    /\ Over(c)
    /\ UNCHANGED <<link, body, image, typed>>

-----------------------------------------------------------------------------
(* pushConversationImagesToIssue, for both.                                *)

\* The attachments no work item has been recorded for.
Select(c) ==
    /\ op[c].at = "select"
    /\ LET ready == {m \in Image : image[m] = "ready"} IN
       IF ready = {} THEN Pushed(c)
       ELSE op' = [op EXCEPT ![c] = [@ EXCEPT !.at = "upload", !.left = ready]]
    /\ UNCHANGED <<link, body, image, typed, breaks, mingled>>

NextUpload(c, m, uploaded) ==
    LET rest == op[c].left \ {m}
        urls == IF uploaded THEN op[c].urls \cup {m} ELSE op[c].urls
    IN  IF rest = {} /\ urls = {} THEN Pushed(c)
        ELSE op' = [op EXCEPT ![c] = [@ EXCEPT !.left = rest, !.urls = urls,
                            !.at = IF rest = {} THEN "patch" ELSE "upload"]]

\* Uploaded, and the work item recorded in the attachment's metadata.
Upload(c) ==
    /\ op[c].at = "upload"
    /\ \E m \in op[c].left :
          /\ image' = [image EXCEPT ![m] = op[c].item]
          /\ NextUpload(c, m, TRUE)
    /\ UNCHANGED <<link, body, typed, breaks, mingled>>

\* The upload fails, or it works and recording it fails: either is logged.
UploadFails(c) ==
    /\ op[c].at = "upload"
    /\ Break
    /\ \E m \in op[c].left, uploaded \in BOOLEAN : NextUpload(c, m, uploaded)
    /\ UNCHANGED <<link, body, image, typed, mingled>>

\* The description that was read, with the images added, replaces whatever
\* the work item shows now.
PatchDescription(c) ==
    /\ op[c].at = "patch"
    /\ body' = [body EXCEPT ![op[c].item] = op[c].base \cup op[c].urls]
    /\ Pushed(c)
    /\ UNCHANGED <<link, image, typed, breaks, mingled>>

PatchFails(c) ==
    /\ op[c].at = "patch"
    /\ Break
    /\ Pushed(c)
    /\ UNCHANGED <<link, body, image, typed, mingled>>

-----------------------------------------------------------------------------
(* Everybody else.                                                         *)

ProcessDies(c) ==
    /\ Running(c)
    /\ Break
    /\ Over(c)
    /\ UNCHANGED <<link, body, image, typed, mingled>>

ImageArrives(m) ==
    /\ image[m] = "absent"
    /\ image' = [image EXCEPT ![m] = "ready"]
    /\ UNCHANGED <<link, body, typed, op, breaks, mingled>>

EngineerEdits(i, e) ==
    /\ e \notin typed
    /\ typed' = typed \cup {e}
    /\ body' = [body EXCEPT ![i] = @ \cup {e}]
    /\ mingled' = (mingled \/ \E c \in Call : op[c].item = i)
    /\ UNCHANGED <<link, image, op, breaks>>

Push(c) ==
    \/ Select(c) \/ Upload(c) \/ UploadFails(c) \/ PatchDescription(c) \/ PatchFails(c)

EvidenceNext ==
    \/ \E c \in Promotion :
          \/ Promote(c) \/ CreateWorkItem(c) \/ CreateFails(c)
          \/ StoreLink(c) \/ StoreLinkFails(c)
    \/ \E c \in Attach : StartAttach(c) \/ AttachFails(c)
    \/ \E c \in Call : Push(c) \/ ProcessDies(c)
    \/ \E m \in Image : ImageArrives(m)
    \/ \E i \in DOMAIN body, e \in Edit : EngineerEdits(i, e)

EvidenceSpec == EvidenceInit /\ [][EvidenceNext]_evidenceVars

-----------------------------------------------------------------------------
\* Calls that neither overlap nor fail leave everything in place: the ticket
\* is linked to the only work item, and every image recorded as attached is
\* in its description with every edit made.
UndisturbedIsWhole ==
    (breaks = 0 /\ ~mingled /\ \A c \in Call : ~Running(c))
        => /\ DOMAIN body = {link} \ {"none"}
           /\ \A m \in Image : image[m] \in Item => m \in body[link]
           /\ link # "none" => typed \subseteq body[link]
=============================================================================
