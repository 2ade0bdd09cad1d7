----------------------------- MODULE MCServices -----------------------------
(* ThrottlerGuard, EmailService, CacheService, EncryptionService, the      *)
(* delivery of events and the helpers of async.util.ts, one of them in     *)
(* each behaviour: they share no state.                                    *)
EXTENDS Throttler, Email, Cache, Async, Encryption, Events, TLC

VARIABLE service

vars == <<throttlerVars, emailVars, cacheVars, asyncVars, encryptionVars, eventsVars, service>>

MCInit ==
    /\ service \in {"throttler", "email", "cache", "async", "encryption", "events"}
    /\ ThrottlerInit /\ EmailInit /\ CacheInit /\ AsyncInit /\ EncryptionInit /\ EventsInit
    \* A service that does not run starts in one way only.
    /\ service # "encryption" => \A p \in Process : config[p].master = CHOOSE m \in Master : TRUE

MCNext ==
    /\ \/ /\ service = "throttler" /\ ThrottlerNext
          /\ UNCHANGED <<emailVars, cacheVars, asyncVars, encryptionVars, eventsVars>>
       \/ /\ service = "email" /\ EmailNext
          /\ UNCHANGED <<throttlerVars, cacheVars, asyncVars, encryptionVars, eventsVars>>
       \/ /\ service = "cache" /\ CacheNext
          /\ UNCHANGED <<throttlerVars, emailVars, asyncVars, encryptionVars, eventsVars>>
       \/ /\ service = "async" /\ AsyncNext
          /\ UNCHANGED <<throttlerVars, emailVars, cacheVars, encryptionVars, eventsVars>>
       \/ /\ service = "encryption" /\ EncryptionNext
          /\ UNCHANGED <<throttlerVars, emailVars, cacheVars, asyncVars, eventsVars>>
       \/ /\ service = "events" /\ EventsNext
          /\ UNCHANGED <<throttlerVars, emailVars, cacheVars, asyncVars, encryptionVars>>
    /\ UNCHANGED service

MCSpec ==
    MCInit /\ [][MCNext]_vars /\ CacheFairness /\ AsyncFairness /\ EventsFairness

TypeOK ==
    /\ ThrottlerTypeOK /\ EmailTypeOK /\ CacheTypeOK
    /\ AsyncTypeOK /\ EncryptionTypeOK /\ EventsTypeOK

CONSTANTS b1, b2

MCLimit == b1 :> 1 @@ b2 :> 2
MCSpan == b1 :> 2 @@ b2 :> 1
=============================================================================
