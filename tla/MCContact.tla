------------------------------ MODULE MCContact ------------------------------
(* What a customer sends and is sent: LineIngress, ProjectOnboarding,       *)
(* WebChat, CustomerNotices, SlaReminders, SlaFollowUps and CloseDialogue   *)
(* side by side.  A behaviour is one of a single module, chosen by part,    *)
(* while the variables of the others rest in their initial states.          *)
EXTENDS LineIngress, ProjectOnboarding, WebChat, CustomerNotices, SlaReminders, SlaFollowUps,
        CloseDialogue, TLC

CONSTANTS s1, s2, s3, k1, k2, k3, g1, g2, t1, t2, h1, h2, nc, e1, e2, r1, r2, p1, p2, np, x1, x2,
          b1, b2, q1, q2, v1, v2, pz, no, x

VARIABLE part

vars == <<part, ingressVars, onboardingVars, webVars, noticeVars, reminderVars, followUpVars,
          dialogueVars>>

\* Three units of time and a business day, with days of two units.
MCIntervals == {Hours(3), BusinessDays(1)}

\* Both tabs are at one process; the worker may be at another.
MCHome == [t \in Tab |-> q1]
MCTicket == [t \in Tab |-> IF t = b1 THEN p1 ELSE pz]

\* Each project has a code of its own.
MCProjectOf == [c \in Code |-> c]

\* The cases of a dialogue begin alike: which is the newest makes no difference.
ContactInit ==
    /\ part \in {"ingress", "onboarding", "web", "notices", "reminders", "follow-ups", "dialogue"}
    /\ IngressInit
    /\ part # "ingress" => ~batching /\ kind = [e \in Event |-> "text"]
    /\ OnboardingInit
    /\ activeCodes = Code
    /\ WebInit
    /\ part # "web" => There = {}
    /\ part # "onboarding" => session = NoSession /\ ~known
    /\ NoticesInit
    /\ RemindersInit
    /\ part # "reminders" => ticket = CHOOSE t \in
           [created: CreatedAt, interval: Interval, leg: {"dev", "user"}, open: {TRUE}] : TRUE
    /\ FollowUpsInit
    /\ part # "follow-ups" => clock = CHOOSE t \in DeliveredAt : TRUE
    /\ DialogueInit
    /\ part # "dialogue" => state = [c \in Case |-> CHOOSE s \in BornAs : TRUE]
    /\ place = CHOOSE p \in Places : TRUE

Rest(others) == UNCHANGED <<part, others>>

IngressStep ==
    /\ part = "ingress" /\ IngressNext
    /\ Rest(<<onboardingVars, webVars, noticeVars, reminderVars, followUpVars,
             dialogueVars>>)
OnboardingStep ==
    /\ part = "onboarding" /\ OnboardingNext
    /\ Rest(<<ingressVars, webVars, noticeVars, reminderVars, followUpVars, dialogueVars>>)
WebStep ==
    /\ part = "web" /\ WebNext
    /\ Rest(<<ingressVars, onboardingVars, noticeVars, reminderVars, followUpVars,
             dialogueVars>>)
NoticesStep ==
    /\ part = "notices" /\ NoticesNext
    /\ Rest(<<ingressVars, onboardingVars, webVars, reminderVars, followUpVars,
             dialogueVars>>)
RemindersStep ==
    /\ part = "reminders" /\ RemindersNext
    /\ Rest(<<ingressVars, onboardingVars, webVars, noticeVars, followUpVars, dialogueVars>>)
FollowUpsStep ==
    /\ part = "follow-ups" /\ FollowUpsNext
    /\ Rest(<<ingressVars, onboardingVars, webVars, noticeVars, reminderVars, dialogueVars>>)
DialogueStep ==
    /\ part = "dialogue" /\ DialogueNext
    /\ Rest(<<ingressVars, onboardingVars, webVars, noticeVars, reminderVars, followUpVars>>)

ContactNext ==
    \/ IngressStep \/ OnboardingStep \/ WebStep
    \/ NoticesStep \/ RemindersStep \/ FollowUpsStep \/ DialogueStep

ContactSpec == ContactInit /\ [][ContactNext]_vars

\* Every variable of the module at work keeps its type.
ContactTypeOK ==
    CASE part = "ingress" -> IngressTypeOK
      [] part = "onboarding" -> OnboardingTypeOK
      [] part = "web" -> WebTypeOK
      [] part = "notices" -> NoticesTypeOK
      [] part = "reminders" -> RemindersTypeOK
      [] part = "follow-ups" -> FollowUpsTypeOK
      [] part = "dialogue" -> DialogueTypeOK
=============================================================================
