------------------------------- MODULE MCClients -------------------------------
(***************************************************************************)
(* A small instance for TLC of the apps in front of the backend and of     *)
(* what the backend keeps for them: the signed-in web app, the phone's     *)
(* account, profile screens and call, the session token, the company's     *)
(* Google connection, the assistant's published profile and the tools of a *)
(* voice session.  They share no variable: a behaviour is one of a single  *)
(* part, chosen at the start, and the states of the instance are the sum   *)
(* of the parts', not their product.  Two parts are too large for TLC and  *)
(* are followed in smaller ones: of the workspace, "seen" is what happens  *)
(* until a form is saved blind, after which nothing is asked of it; of the *)
(* phone's call, "voice" are screens opened one after the other, and       *)
(* "retry" one screen whose user starts again while a failed start is      *)
(* still cleaned up after.  The theorems are about all of them.            *)
(***************************************************************************)
EXTENDS Workspace, MobileAccount, MobileProfile, SessionToken, VoiceCall,
        OAuthTokens, AgentProfiles, AgentTools, TLC

CONSTANT Parts  \* the parts this instance follows

VARIABLE part

appVars == <<workVars, accountVars, profileVars, tokenVars, voiceVars>>
keptVars == <<oauthVars, profileVersionVars, toolVars>>
clientVars == <<part, appVars, keptVars>>

\* a part that is not followed has one initial state
ClientInit ==
    /\ part \in Parts
    /\ WorkInit /\ AccountInit /\ ProfileInit /\ TokenInit /\ VoiceInit
    /\ OAuthInit /\ VersionsInit /\ ToolsInit
    /\ part \notin {"workspace", "seen"} => stored.profile = Blank
    /\ part # "token" => published = CHOOSE v \in Versions : TRUE
    /\ part # "account" => ~session /\ ~account.company
    /\ part # "profile" => ~profile.company

\* no screen starts again before a failed start was cleaned up after
NoHaste == \A m \in Mounts : call[m].flight # "idle" => call[m].drops + call[m].stops = 0

\* one screen, whose microphone is not pressed
OneScreen == \A m \in Mounts :
    /\ m # (CHOOSE n \in Mounts : TRUE) => call[m].view = "unopened"
    /\ call[m].wish = "on"

AppNext ==
    \/ /\ part \in {"workspace", "seen"} /\ WorkNext
       /\ (part = "seen" => ~blind)
       /\ UNCHANGED <<accountVars, profileVars, tokenVars, voiceVars>>
    \/ /\ part = "account" /\ AccountNext
       /\ UNCHANGED <<workVars, profileVars, tokenVars, voiceVars>>
    \/ /\ part = "profile" /\ ProfileNext
       /\ UNCHANGED <<workVars, accountVars, tokenVars, voiceVars>>
    \/ /\ part = "token" /\ TokenNext
       /\ UNCHANGED <<workVars, accountVars, profileVars, voiceVars>>
    \/ /\ part \in {"call", "voice", "retry"} /\ VoiceNext
       /\ (part = "voice" => NoHaste') /\ (part = "retry" => OneScreen')
       /\ UNCHANGED <<workVars, accountVars, profileVars, tokenVars>>

KeptNext ==
    \/ part = "oauth" /\ OAuthNext /\ UNCHANGED <<profileVersionVars, toolVars>>
    \/ part = "publication" /\ VersionsNext /\ UNCHANGED <<oauthVars, toolVars>>
    \/ part = "tools" /\ ToolsNext /\ UNCHANGED <<oauthVars, profileVersionVars>>

ClientNext ==
    \/ AppNext /\ UNCHANGED <<part, keptVars>>
    \/ KeptNext /\ UNCHANGED <<part, appVars>>

ClientSpec == ClientInit /\ [][ClientNext]_clientVars

(***************************************************************************)
(* Every state of the parts is well typed.                                 *)
(***************************************************************************)
ClientsTypeOK ==
    /\ WorkTypeOK /\ AccountTypeOK /\ ProfileTypeOK /\ TokenTypeOK /\ VoiceTypeOK
    /\ OAuthTypeOK /\ VersionsTypeOK /\ ToolsTypeOK

(***************************************************************************)
(* No app erases what another has stored: a field the user did not edit is *)
(* lost neither to the forms of the web app (App.tsx) nor to those of the  *)
(* phone (SettingsScreen.tsx), but where a form was saved before it held   *)
(* what was stored.                                                        *)
(***************************************************************************)
StoredTextSurvives == OnlyABlindSaveErases /\ RestSurvivesSettings

(***************************************************************************)
(* The phone is in the state it shows: its gate opens for the session and  *)
(* profile there are (AuthContext.tsx), its call screen holds the room and *)
(* audio it shows and no other, and a muted microphone is silent           *)
(* (useVoiceBot.ts), but for the races these name.                         *)
(***************************************************************************)
PhoneIsTrue == GateIsTrue /\ PhoneHoldsWhatItShows /\ MutedIsSilent

(***************************************************************************)
(* What works for a company is what its owner chose last: tokens are of    *)
(* the Google account linked last (google_oauth.py get_valid_access_token),*)
(* and the published assistant is that of the last publication answered    *)
(* with success (agent_profiles.py), but for the crossings and the lost    *)
(* acknowledgements these name.                                            *)
(***************************************************************************)
OwnersChoiceIsInForce == TokenIsOfTheLinkedAccount /\ PublishedIsTheChosenOne
================================================================================
