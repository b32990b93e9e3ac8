----------------------------- MODULE BitrateHud -----------------------------
(***************************************************************************)
(* The bitrate control over the stream                                     *)
(* (src/web/component/realtime_bitrate_hud.ts) and what src/web/stream.ts  *)
(* does with it.  The user chooses a value, pending until the "apply"      *)
(* button beside it is pressed, which stores it and restarts the stream;   *)
(* the button goes, and the choice with it, after ten seconds.  The        *)
(* settings panel and the channel of the stream set the control from the   *)
(* stored settings, whatever the user is at.                               *)
(***************************************************************************)
EXTENDS Naturals

CONSTANTS
  Rates,  \* bitrates, in steps above the least one
  Tiers   \* the greatest bitrate of every profile
ASSUME RatesAssumption == Rates \subseteq Nat /\ Tiers \subseteq Rates /\ Tiers # {}

VARIABLES
  stored,     \* bitrate of the settings
  tier,       \* maxMbps of tier
  committed,  \* committedMbps
  pending,    \* pendingMbps
  editing,    \* editingValue
  snapshot,   \* editSnapshot
  disabled,   \* range.disabled
  busy,       \* applyBusy, and overlayBitrateApplyBtn.disabled
  applying,   \* snapped of applyOverlayBitrate
  apply_shown,  \* overlayBitrateApplyBtn is not hidden
  dismissing,   \* overlayBitrateApplyDismissTimer runs
  astray      \* history: the last apply failed, or the settings changed in the course of it

editorVars == <<editing, snapshot>>
applyVars == <<busy, applying>>
bitrateVars == <<stored, tier, committed, pending, editorVars, disabled, applyVars,
                 apply_shown, dismissing, astray>>

\* snapBitrateMbpsForTier.
Snap(rate, max) == IF rate > max THEN max ELSE rate

BitrateInit ==
  /\ stored \in Rates /\ tier \in Tiers
  /\ committed = Snap(stored, tier) /\ pending = committed /\ snapshot = committed
  /\ applying = committed /\ editing = FALSE /\ disabled = TRUE /\ busy = FALSE
  /\ apply_shown = FALSE /\ dismissing = FALSE /\ astray = FALSE

\* Mutant: the timer is left when there is nothing to apply any more.
VisualsKeepTimer(rate) ==
  /\ pending' = rate /\ apply_shown' = (rate # committed')
  /\ dismissing' = (dismissing \/ apply_shown')

\* applyVisuals, syncDirtyState, syncOverlayBitrateApplyButton.
Visuals(rate) ==
  /\ pending' = rate /\ apply_shown' = (rate # committed') /\ dismissing' = apply_shown'

\* The slider and the presets.
Choose(rate) ==
  /\ ~disabled /\ UNCHANGED committed /\ Visuals(Snap(rate, tier))
  /\ UNCHANGED <<stored, tier, editorVars, disabled, applyVars, astray>>

OpenEditor ==
  /\ ~disabled /\ ~busy /\ ~editing /\ editing' = TRUE /\ snapshot' = pending
  /\ UNCHANGED <<stored, tier, committed, pending, disabled, applyVars, apply_shown,
                 dismissing, astray>>

\* closeEditor: Enter and the loss of the focus take the number, Escape the snapshot.
CloseEditor(rate) ==
  /\ editing /\ editing' = FALSE /\ UNCHANGED committed /\ Visuals(rate)
  /\ UNCHANGED <<stored, tier, snapshot, disabled, applyVars, astray>>

\* revertToCommitted, on the timer of the button.
Dismiss ==
  /\ dismissing /\ editing' = FALSE /\ UNCHANGED committed /\ Visuals(committed)
  /\ UNCHANGED <<stored, tier, snapshot, disabled, applyVars, astray>>

\* The button, whose press takes the focus from the number.
Apply ==
  /\ apply_shown /\ ~busy /\ ~editing /\ pending # committed
  /\ stored' = Snap(pending, tier) /\ applying' = stored' /\ busy' = TRUE /\ disabled' = TRUE
  /\ apply_shown' = FALSE /\ dismissing' = FALSE /\ astray' = FALSE
  /\ UNCHANGED <<tier, committed, pending, editorVars>>

\* The old stream has stopped and the new one was started; its channel is not open yet.
Applied ==
  /\ busy /\ busy' = FALSE /\ disabled' = FALSE
  /\ committed' = Snap(applying, tier) /\ Visuals(committed')
  /\ UNCHANGED <<stored, tier, editorVars, applying, astray>>

\* The restart throws, as when another one, of the settings panel, was under way.
ApplyFails ==
  /\ busy /\ busy' = FALSE /\ disabled' \in {disabled, FALSE} /\ astray' = TRUE
  /\ UNCHANGED <<stored, tier, committed, pending, editorVars, applying, apply_shown,
                 dismissing>>

\* syncOverlayBitrateRangeFromSettings: the editor stays open.
Refresh(rate, max) ==
  /\ stored' = rate /\ tier' = max /\ committed' = Snap(rate, max) /\ Visuals(committed')

\* The settings panel, or hiding the control and showing it again.
SettingsChange(rate, max) ==
  /\ Refresh(rate, max) /\ astray' = busy
  /\ UNCHANGED <<editorVars, disabled, applyVars>>

\* generalChannelReady.
ChannelReady ==
  /\ Refresh(stored, tier) /\ disabled' = FALSE
  /\ astray' = (astray /\ busy) /\ UNCHANGED <<editorVars, applyVars>>

\* setDisabled(true), when the connection is lost, closes the editor like Escape.
Disable ==
  /\ disabled' = TRUE /\ editing' = FALSE /\ UNCHANGED committed
  /\ IF editing THEN Visuals(snapshot) ELSE UNCHANGED <<pending, apply_shown, dismissing>>
  /\ UNCHANGED <<stored, tier, snapshot, applyVars, astray>>

BitrateNext ==
  \/ \E rate \in Rates : Choose(rate) \/ CloseEditor(Snap(rate, tier))
  \/ OpenEditor \/ CloseEditor(snapshot) \/ CloseEditor(pending)
  \/ Dismiss \/ Apply \/ Applied \/ ApplyFails \/ ChannelReady \/ Disable
  \/ \E rate \in Rates, max \in Tiers : SettingsChange(rate, max)

BitrateTypeOK ==
  /\ {stored, tier, committed, pending, snapshot, applying} \subseteq Rates
  /\ {editing, disabled, busy, apply_shown, dismissing, astray} \subseteq BOOLEAN

-----------------------------------------------------------------------------
\* The button is there as long as its timer, and has something to apply; a choice that is
\* not applied is not forgotten, and what the control takes for the bitrate is that of the
\* settings, but while it applies one and when that went wrong.
BitrateAgrees ==
  /\ dismissing = apply_shown
  /\ apply_shown => pending # committed
  /\ ~busy /\ ~astray => (pending # committed => apply_shown) /\ committed = Snap(stored, tier)
=============================================================================
