-------------------------- MODULE UserDirectories ---------------------------
(***************************************************************************)
(* Nickvision::Filesystem::UserDirectories                                 *)
(* (src/filesystem/userdirectories.cpp) and the environment variables it   *)
(* reads (src/system/environment.cpp), for each of the systems it is built *)
(* for. A path is the sequence of its parts; on Linux a line of            *)
(* user-dirs.dirs has a key and a path, which may begin with $HOME.        *)
(***************************************************************************)
EXTENDS Integers, Sequences

CONSTANTS
    OperatingSystems,  \* a subset of "Windows", "MacOS" and "Linux"
    HomePath,          \* the home of the account
    KnownDirs,         \* Windows: the folder there is for a directory, or <<>>
    Settings,          \* values that each variable may get
    Unset,             \* the environment lacks the variable
    Lines              \* lines that user-dirs.dirs may have, without comments

VARIABLES
    os,        \* the system the library is built for
    env,       \* the environment
    dirsFile   \* user-dirs.dirs: the directory it is in, and its lines

directoryVars == <<os, env, dirsFile>>

hasVariable(key) == env[key] # Unset
getVariable(key) == IF hasVariable(key) THEN env[key] ELSE <<>>

\* To set the empty text removes the variable on Windows, and leaves it there on
\* the other systems.
setVariable(key, value) ==
    /\ env' = [env EXCEPT ![key] = IF os = "Windows" /\ value = <<>> THEN Unset ELSE value]
    /\ UNCHANGED <<os, dirsFile>>

clearVariable(key) == setVariable(key, <<>>)

-----------------------------------------------------------------------------
VariableOf ==
    [Config    |-> "XDG_CONFIG_HOME",   Cache     |-> "XDG_CACHE_HOME",
     LocalData |-> "XDG_DATA_HOME",     Desktop   |-> "XDG_DESKTOP_DIR",
     Documents |-> "XDG_DOCUMENTS_DIR", Downloads |-> "XDG_DOWNLOAD_DIR",
     Music     |-> "XDG_MUSIC_DIR",     Pictures  |-> "XDG_PICTURES_DIR",
     Templates |-> "XDG_TEMPLATES_DIR", Videos    |-> "XDG_VIDEOS_DIR"]

BaseDirectories == {"Config", "Cache", "LocalData"}
NamedDirectories == DOMAIN VariableOf \ BaseDirectories

\* Where a base directory is when its variable is not set.
BelowHome ==
    IF os = "MacOS"
    THEN [Config    |-> <<"Library", "Application Support">>,
          Cache     |-> <<"Library", "Caches">>,
          LocalData |-> <<"Library", "Application Support">>]
    ELSE [Config |-> <<".config">>, Cache |-> <<".cache">>, LocalData |-> <<".local", "share">>]

Home == IF getVariable("HOME") # <<>> THEN getVariable("HOME") ELSE HomePath

Base(directory) ==
    IF os = "Linux" /\ getVariable(VariableOf[directory]) # <<>>
    THEN getVariable(VariableOf[directory])
    ELSE Home \o BelowHome[directory]

\* The variable, else the first line with the key, if the file is there.
getXDGDir(key) ==
    LET lines == IF dirsFile.dir = Base("Config") THEN dirsFile.lines ELSE <<>>
        found == {i \in DOMAIN lines : lines[i].key = key}
        line  == lines[CHOOSE i \in found : \A j \in found : i <= j]
    IN  IF getVariable(key) # <<>> THEN getVariable(key)
        ELSE IF found = {} THEN <<>>
        ELSE IF line.home THEN Home \o line.path ELSE line.path

Named(directory) ==
    IF os = "Linux" /\ getXDGDir(VariableOf[directory]) # <<>>
    THEN getXDGDir(VariableOf[directory])
    ELSE Home \o <<directory>>

getKnownDir(directory) ==
    IF directory = "Cache" THEN KnownDirs["LocalData"] \o <<"Temp">> ELSE KnownDirs[directory]

\* UserDirectories::get(); it makes the directory too, if it is not there.
Directory(directory) ==
    IF os = "Windows" THEN getKnownDir(directory)
    ELSE IF directory = "Home" THEN Home
    ELSE IF directory \in BaseDirectories THEN Base(directory)
    ELSE Named(directory)

AppDirectory(directory, appName) ==
    IF appName = <<>> THEN <<>> ELSE Directory(directory) \o appName

=============================================================================
