------------------------------- MODULE Settings -------------------------------
(***************************************************************************)
(* Changing settings (PATCH /api/settings): a request names some keys; all   *)
(* are validated, then each is saved by a statement of its own, then the     *)
(* change is audited. The display currency must be one with a rate, the      *)
(* schedule of reports needs a licence, and a licence file is verified only  *)
(* when it is saved. Requests interleave with each other and with the        *)
(* fetches of rates, and the database may refuse a statement.                *)
(***************************************************************************)
EXTENDS FxRates, SequencesExt

CONSTANTS
  Bodies,       \* the bodies sent: sequences of [key, value]
  SETTING_DEFAULTS,
  Malformed,    \* the changes [key, value] that a validator turns down
  Forged,       \* licence files whose signature does not verify
  MaxPatches,   \* bound: requests, numbered
  MaxRefusals   \* bound: statements the database refuses

ASSUME SettingsAssumption ==
  /\ \A body \in Bodies :
       /\ body \in Seq(Range(body)) \ {<<>>}
       /\ \A c \in Range(body) :
            c = [key |-> c.key, value |-> c.value] /\ c.key \in DOMAIN SETTING_DEFAULTS
  /\ SETTING_DEFAULTS = [k \in DOMAIN SETTING_DEFAULTS |-> SETTING_DEFAULTS[k]]
  /\ {"display_currency", "license_file", "scheduled_reports"} \subseteq DOMAIN SETTING_DEFAULTS
  /\ SETTING_DEFAULTS["display_currency"] = "USD"
  /\ SETTING_DEFAULTS["license_file"] = "none" /\ "none" \notin Forged

VARIABLES
  saved,    \* settings: key -> value
  patch,    \* the requests: [body, at, n, audited]
  audits,   \* audit_log, the changes it records
  refusals

settingVars == <<saved, patch, audits, refusals>>

SettingsInit ==
  /\ saved = SETTING_DEFAULTS
  /\ patch = <<>>
  /\ audits = {}
  /\ refusals = 0

Set(p, at, n) == patch' = [patch EXCEPT ![p].at = at, ![p].n = n]
InPatch(p, at) == p \in DOMAIN patch /\ patch[p].at = at
ChangeOf(p) == patch[p].body[patch[p].n]

\* licenseStatus: a file that is stored and verifies
eeFeatureEnabled == saved["license_file"] \notin Forged \cup {"none"}

DatabaseRefuses(p, at) ==
  /\ refusals < MaxRefusals /\ refusals' = refusals + 1
  /\ Set(p, at, patch[p].n)
  /\ UNCHANGED <<saved, audits>>

\* the request, and the validation of each key of it; a licence is only a text here
Validate ==
  /\ Len(patch) < MaxPatches
  /\ \E body \in Bodies :
       LET invalid(c) == c \in Malformed \/ (c.key = "scheduled_reports" /\ ~eeFeatureEnabled)
           at == IF \E n \in DOMAIN body : invalid(body[n]) THEN "rejected" ELSE "valid"
       IN  patch' = Append(patch, [body |-> body, at |-> at, n |-> 1])
  /\ UNCHANGED <<saved, audits, refusals>>

\* mutant: any currency will do
Unknown_Never(p) == FALSE

Unknown(p) ==
  \E n \in DOMAIN patch[p].body :
    patch[p].body[n].key = "display_currency" /\ ~Known(patch[p].body[n].value)

\* unknownCurrencies: no currency without a rate
CheckCurrency(p) ==
  /\ InPatch(p, "valid")
  /\ Set(p, IF Unknown(p) THEN "rejected" ELSE "saving", 1)
  /\ UNCHANGED <<saved, audits, refusals>>

\* one key: stored, unless it is a licence that does not verify
SaveSetting(p) ==
  /\ InPatch(p, "saving")
  /\ LET c == ChangeOf(p) IN
     \/ /\ c.key = "license_file" /\ c.value \in Forged
        /\ Set(p, "rejected", patch[p].n)
        /\ UNCHANGED <<saved, audits, refusals>>
     \/ /\ ~(c.key = "license_file" /\ c.value \in Forged)
        /\ saved' = [saved EXCEPT ![c.key] = c.value]
        /\ IF patch[p].n < Len(patch[p].body) THEN Set(p, "saving", patch[p].n + 1)
           ELSE Set(p, "saved", patch[p].n)
        /\ UNCHANGED <<audits, refusals>>
     \/ DatabaseRefuses(p, "failed")

\* audit: one entry with every change; when it is refused that is logged, and the
\* request is answered as if it were there
Audit(p) ==
  /\ InPatch(p, "saved")
  /\ \/ /\ audits' = audits \cup Range(patch[p].body)
        /\ Set(p, "answered", patch[p].n)
        /\ UNCHANGED <<saved, refusals>>
     \/ DatabaseRefuses(p, "unaudited")

SettingsNext ==
  \/ Validate
  \/ \E p \in DOMAIN patch : CheckCurrency(p) \/ SaveSetting(p) \/ Audit(p)

\* The display currency can be converted to (settings/route.ts: "no fake
\* numbers from a currency with no FX rates"), whatever the fetches do between
\* the check and the save.
CurrencyConverts == Known(saved["display_currency"])

\* p has stored c: an earlier key of its body, or any once all of it is stored
Stored(p, c) ==
  \E n \in DOMAIN patch[p].body :
    /\ patch[p].body[n] = c
    /\ n < patch[p].n \/ patch[p].at \in {"saved", "unaudited"}

\* A setting that is not the default was changed by a request that is audited,
\* or that has stored it and is still under way, was cut short, or could not
\* write its entry (audit.ts: "every settings change").
ChangesAudited ==
  \A k \in DOMAIN saved :
    LET c == [key |-> k, value |-> saved[k]] IN
    \/ saved[k] = SETTING_DEFAULTS[k]
    \/ c \in audits
    \/ \E p \in DOMAIN patch : patch[p].at # "answered" /\ Stored(p, c)

\* No licence is stored that does not verify, and no schedule was ever saved
\* on an instance without one.
NothingForged ==
  /\ saved["license_file"] \notin Forged
  /\ saved["scheduled_reports"] # SETTING_DEFAULTS["scheduled_reports"] =>
       \E p \in DOMAIN patch : \E c \in Range(patch[p].body) :
         c.key = "license_file" /\ c.value \notin Forged \cup {"none"}

\* A request that is turned down has stored nothing (settings/route.ts:133-134
\* says so of a licence that does not verify). It fails: the keys before the
\* licence are saved by then.
RejectedStoresNothing ==
  \A p \in DOMAIN patch : patch[p].at = "rejected" =>
    \A c \in Range(patch[p].body) : saved[c.key] = c.value =>
      \/ c.value = SETTING_DEFAULTS[c.key]
      \/ \E q \in DOMAIN patch \ {p} : c \in Range(patch[q].body)
=============================================================================
