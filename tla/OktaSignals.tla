----------------------------- MODULE OktaSignals -----------------------------
(***************************************************************************)
(* The detector of the Okta adapter (adapters/okta/signals.go): the signals an *)
(* event of the System Log raises against the memory of its actor, and what   *)
(* the event then leaves in that memory; and what the sink (sink.go) asks the *)
(* core about a signal.                                                      *)
(*                                                                          *)
(* An event is [Published, Login, EventType, Result, Geo, Place, Device,       *)
(* Legacy]: its type by the longest prefix that the detector distinguishes,   *)
(* Geo its label, Place its coordinates, and Legacy whether its credential or *)
(* transport is a legacy one.  What a signal says in detail is left out.      *)
(***************************************************************************)
EXTENDS Integers, Sequences

CONSTANTS
    Distance(_, _),      \* between two places
    MaxTravelSpeed,
    FatigueThreshold, FatigueWindow,
    maxGeosPerIdentity, maxDevicesPerIdentity, maxMFAFailsPerIdentity

Absent == "absent"

NewIdentity ==
    [LastSeen |-> 0, LastGeo |-> Absent, Geos |-> <<>>, Place |-> Absent,
     Devices |-> <<>>, MFAFails |-> <<>>, Admin |-> FALSE]

mfaEventTypePrefixes ==
    {"user.mfa.", "user.mfa.okta_verify.deny", "user.mfa.factor.", "system.mfa.",
     "user.authentication.mfa."}
adminEventTypePrefixes ==
    {"user.account.", "user.mfa.factor.", "user.role.", "system.role.",
     "group.user_membership.", "group.privilege.", "policy.lifecycle.", "policy.rule.",
     "application.user_management.", "user.session.clear", "zone."}

isMFAEvent(ev) == ev.EventType \in mfaEventTypePrefixes
isAdminEvent(ev) == ev.EventType \in adminEventTypePrefixes
isAuthEvent(ev) ==
    ev.EventType \in {"user.session.", "user.session.clear", "user.authentication.",
                      "user.authentication.mfa.", "policy.evaluate_sign_on"}

denied(ev) == ev.EventType = "user.mfa.okta_verify.deny"
MFAFailed(ev) == isMFAEvent(ev) /\ (denied(ev) \/ ev.Result = "FAILURE")

Latest(list, max) == IF Len(list) > max THEN SubSeq(list, Len(list) - max + 1, Len(list)) ELSE list

\* The most recent values, each once.
appendBounded(list, v, max) == Latest(Append(SelectSeq(list, LAMBDA s : s # v), v), max)

pruneMFATimes(times, now) == SelectSeq(times, LAMBDA t : t >= now - FatigueWindow)

Knows(list, v) == \E i \in DOMAIN list : list[i] = v

\* No travel is so fast.
ImpossibleTravel(ev, id) ==
    /\ ev.Place # Absent /\ id.Place # Absent
    /\ Distance(id.Place, ev.Place) > MaxTravelSpeed * (ev.Published - id.LastSeen)

Raise(signal, condition) == IF condition THEN <<signal>> ELSE <<>>

\* The signals that ev raises, in the order in which they are delivered.
Detect(ev, id) ==
    LET later == ev.Published > id.LastSeen
    IN  Raise("impossible_travel", later /\ ImpossibleTravel(ev, id))
        \o Raise("new_geo", later /\ ev.Geo # Absent /\ id.Geos # <<>> /\ ~Knows(id.Geos, ev.Geo))
        \o Raise("new_device", ev.Device # Absent /\ id.Devices # <<>> /\ ~Knows(id.Devices, ev.Device))
        \o Raise("legacy_auth", ev.Legacy)
        \o Raise("mfa_deny", denied(ev))
        \o Raise("mfa_fail", MFAFailed(ev) /\ ~denied(ev))
        \o Raise("mfa_fatigue", MFAFailed(ev) /\
              Len(pruneMFATimes(Append(id.MFAFails, ev.Published), ev.Published)) >= FatigueThreshold)
        \o Raise("admin_action", isAdminEvent(ev))
        \o Raise("auth_failure", ev.Result = "FAILURE" /\ isAuthEvent(ev) /\ ~isMFAEvent(ev))

\* The memory after ev; an event older than the last one seen leaves it alone.
Commit(ev, id) ==
    IF ev.Published < id.LastSeen
    THEN id
    ELSE [LastSeen |-> ev.Published,
          LastGeo  |-> IF ev.Geo # Absent THEN ev.Geo ELSE id.LastGeo,
          Geos     |-> IF ev.Geo # Absent THEN appendBounded(id.Geos, ev.Geo, maxGeosPerIdentity)
                       ELSE id.Geos,
          Place    |-> IF ev.Place # Absent THEN ev.Place ELSE id.Place,
          Devices  |-> IF ev.Device # Absent
                       THEN appendBounded(id.Devices, ev.Device, maxDevicesPerIdentity)
                       ELSE id.Devices,
          MFAFails |-> IF MFAFailed(ev)
                       THEN Latest(pruneMFATimes(Append(id.MFAFails, ev.Published), ev.Published),
                                 maxMFAFailsPerIdentity)
                       ELSE id.MFAFails,
          Admin    |-> id.Admin \/ isAdminEvent(ev)]
-----------------------------------------------------------------------------
\* What signalToAccessRequest tells the core about a signal of ev, id being the memory of
\* its actor (a login that is not tracked is as good as new).
signalToAccessRequest(type, ev, id) ==
    [type |-> type,
     privileged |-> id.Admin,
     sensitivity |-> IF type \in {"new_geo", "auth_failure"} THEN "medium" ELSE "high",
     usual_geo |-> id.LastGeo,
     geo |-> ev.Geo,
     compliant |-> type = "auth_failure"]
=============================================================================
