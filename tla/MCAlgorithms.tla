---------------------------- MODULE MCAlgorithms ----------------------------
(***************************************************************************)
(* Components that compute more than they interact, on small instances, as *)
(* in MCServices: one of those with a state, the subject, moves; those     *)
(* without are compared with what defines them over bounded inputs.        *)
(***************************************************************************)
EXTENDS Updater, StringHelpers, Base64, Addresses, WindowGeometry, PasswordGenerator,
        Environment, Localization, Credentials, ProcessUsage

VARIABLE subject

vars == <<subject, updaterVars, passwordVars, environmentVars, gettextVars, credentialVars,
          usageVars>>

-----------------------------------------------------------------------------
(* Inputs. *)

\* A token is 0, 1, "alpha" or "beta"; a field has one, or some and dashes.
MCTokens == {[number |-> 0, dev |-> 3], [number |-> 1, dev |-> 4],
             [number |-> -1, dev |-> 1], [number |-> -1, dev |-> 2]}
MCPlain == {[dash |-> FALSE, dev |-> t.dev, tokens |-> <<t>>] : t \in MCTokens}
MCFields == MCPlain \cup
    {[dash |-> TRUE, dev |-> 5, tokens |-> s] : s \in UNION {[1..n -> MCTokens] : n \in 1..3}}
MCVersionTexts ==
    MCPlain \X MCPlain \cup MCPlain \X MCPlain \X MCFields
    \cup {<<p, p, p, f>> : p \in MCPlain, f \in MCFields} \cup {<<p, p, p, p, p>> : p \in MCPlain}

MCTag(n, dev) == [major |-> 1, minor |-> n, build |-> 0, dev |-> dev]
MCTags == {Zero, MCTag(1, 1), MCTag(1, NoDev)}

MCCharacters == {"a", Space, DoubleQuote}
MCWords == UNION {[1..n -> {"a", Space, DoubleQuote, SingleQuote}] : n \in 0..3}

MCHomePath == <<"home">>
MCKnownDirs == [d \in {"Home"} \cup DOMAIN VariableOf |-> <<"home", ".local", "share">>]
MCSettings ==
    [key \in {"HOME", "PATH", "LANGUAGE", "SNAP", "container"}
                 \cup {VariableOf[d] : d \in DOMAIN VariableOf} |->
        CASE key = "PATH" -> {<<<<"apps", "bin">>, <<"exe">>, <<"bin">>>>}
          [] key = "XDG_DATA_HOME" -> {<<"bin">>}
          [] OTHER -> {}]
MCExecutableDirectory == <<"exe">>
MCLines == <<[key |-> "XDG_DESKTOP_DIR", home |-> TRUE, path |-> <<"Desk">>],
             [key |-> "XDG_MUSIC_DIR", home |-> FALSE, path |-> <<"music">>]>>
MCDomainOf == [name \in {"My App", "Other"} |-> IF name = "Other" THEN "other" ELSE "myapp"]
MCLanguages == <<<<"de">>, <<"pt">>, <<"pt", "BR">>>>
MCCatalogs == {<<"myapp", MCLanguages[i]>> : i \in DOMAIN MCLanguages}
MCLocales == {<<"C">>, <<"pt", "BR">>}
MCPlaces == {<<"exe">>, <<"bin">>, <<"apps", "bin">>, <<"home", ".local", "share">>}

-----------------------------------------------------------------------------
Init ==
    /\ subject \in {"values", "updater", "password", "environment", "localization",
                   "credentials", "usage"}
    /\ UpdaterInit
    /\ PasswordInit    /\ contentFlags = {}
    /\ SearchInit
    /\ IF subject = "localization" THEN LocalizationInit
       ELSE /\ EnvironmentInit /\ (subject # "environment" => os = "Linux")
            /\ GettextInit     /\ catalogs = {} /\ locale = C
    /\ CredentialsInit /\ (subject # "credentials" => manager = "Windows")
    /\ UsageInit

Next ==
    \/ /\ subject = "updater" /\ UpdaterNext
       /\ UNCHANGED <<subject, passwordVars, environmentVars, gettextVars, credentialVars, usageVars>>
    \/ /\ subject = "password" /\ PasswordNext
       /\ UNCHANGED <<subject, updaterVars, environmentVars, gettextVars, credentialVars, usageVars>>
    \/ /\ subject = "environment" /\ EnvironmentNext
       /\ UNCHANGED <<subject, updaterVars, passwordVars, gettextVars, credentialVars, usageVars>>
    \/ /\ subject = "localization" /\ LocalizationNext
       /\ UNCHANGED <<subject, updaterVars, passwordVars, searchVars, credentialVars, usageVars>>
    \/ /\ subject = "credentials" /\ CredentialsNext
       /\ UNCHANGED <<subject, updaterVars, passwordVars, environmentVars, gettextVars, usageVars>>
    \/ /\ subject = "usage" /\ UsageNext
       /\ UNCHANGED <<subject, updaterVars, passwordVars, environmentVars, gettextVars, credentialVars>>

\* With the fairness of PasswordSpec.
Spec ==
    /\ Init /\ [][Next]_vars
    /\ \A type \in PasswordContent :
          WF_passwordVars(subject = "password" /\ type \in DrawnTypes /\ DrawType(type))
    /\ WF_passwordVars(subject = "password" /\ Return)

\* This is about values, not states: one state is enough to look at them.
\* Versions are totally ordered by their operators (see Version); and what is
\* turned into a text, a number or an object comes back the same: versions,
\* arguments of commands, bytes, addresses and window geometries.
ValuesCompareAndConvert ==
    subject = "values" =>
        /\ VersionsAreOrdered /\ VersionsRoundTrip
        /\ ArgumentsRoundTrip /\ TrimmedIsKept /\ ReplaceIsSplitAndJoin /\ Base64RoundTrips
        /\ AddressesRoundTrip
        /\ GeometryRoundTrips

=============================================================================
