----------------------------- MODULE MCServices -----------------------------
(* The services the agents call, explored one at a time: requests to the    *)
(* model servers, the circuit breaker of the vision model, the intent       *)
(* classifier, a camera publisher, the users of the publishers when the     *)
(* video source is switched, and the two in-memory copies of SQLite tables. *)
EXTENDS LLMRouter, CircuitBreaker, IntentClassifier, FramePublisher,
        CameraSwitch, Preferences, EmailCache

VARIABLE part

allVars == <<routerVars, breakerVars, classifierVars, publisherVars,
             switchVars, prefsVars, emailVars>>

MCInit ==
  /\ RouterInit /\ BreakerInit /\ ClassifierInit /\ PublisherInit
  /\ SwitchInit /\ PrefsInit /\ EmailInit
  /\ part \in {"router", "breaker", "classifier", "publisher",
               "switch", "preferences", "emails"}
  /\ ~ up \/ part = "breaker"
  /\ activeUsers = {} \/ part = "emails"

MCRouter ==
  /\ part = "router" /\ RouterNext
  /\ UNCHANGED <<breakerVars, classifierVars, publisherVars, switchVars,
                 prefsVars, emailVars, part>>

MCBreaker ==
  /\ part = "breaker" /\ BreakerNext
  /\ UNCHANGED <<routerVars, classifierVars, publisherVars, switchVars,
                 prefsVars, emailVars, part>>

MCClassifier ==
  /\ part = "classifier" /\ ClassifierNext
  /\ UNCHANGED <<routerVars, breakerVars, publisherVars, switchVars,
                 prefsVars, emailVars, part>>

MCPublisher ==
  /\ part = "publisher" /\ PublisherNext
  /\ UNCHANGED <<routerVars, breakerVars, classifierVars, switchVars,
                 prefsVars, emailVars, part>>

MCSwitch ==
  /\ part = "switch" /\ SwitchNext
  /\ UNCHANGED <<routerVars, breakerVars, classifierVars, publisherVars,
                 prefsVars, emailVars, part>>

MCPreferences ==
  /\ part = "preferences" /\ PrefsNext
  /\ UNCHANGED <<routerVars, breakerVars, classifierVars, publisherVars,
                 switchVars, emailVars, part>>

MCEmails ==
  /\ part = "emails" /\ EmailNext
  /\ UNCHANGED <<routerVars, breakerVars, classifierVars, publisherVars,
                 switchVars, prefsVars, part>>

MCNext ==
  MCRouter \/ MCBreaker \/ MCClassifier \/ MCPublisher \/ MCSwitch
  \/ MCPreferences \/ MCEmails

MCSpec ==
  /\ MCInit /\ [][MCNext]_<<allVars, part>>
  /\ PublisherFairness /\ BreakerFairness

MCTypeOK ==
  /\ RouterTypeOK /\ BreakerTypeOK /\ ClassifierTypeOK /\ PublisherTypeOK
  /\ SwitchTypeOK /\ PrefsTypeOK /\ EmailTypeOK

(* What the in-memory copies of the preferences and of the addresses serve  *)
(* is what their tables held not too long ago, and mail that was switched   *)
(* off is not sent (notification_preferences.py, UserRepository).           *)
CachesAreFresh == ServedIsSaved /\ DisabledIsObeyed /\ StaleAtMostTTL
=============================================================================
