---------------------------- MODULE ConfigStore ----------------------------
(***************************************************************************)
(* What an agent remembers about the robots' configuration, and the        *)
(* operations of src/store/robot_manager.rs and src/store/config.rs on it. *)
(*                                                                         *)
(* A signed UpdateConfig message is a member of Message.  Who signed it,   *)
(* what configuration it carries and whether its signature verifies never  *)
(* change, so they are constant functions of the message.  A robot and a   *)
(* user are both identified by their public key.                           *)
(***************************************************************************)
EXTENDS Naturals

CONSTANTS
  Key,        \* public keys: owners, users and robots
  Message,    \* the signed UpdateConfig messages that may ever exist
  NoMessage,  \* stands for Option::None where a message is expected
  Signer,     \* Signer[m]: SignedMessage.public_key
  Content,    \* Content[m]: the RobotsConfig inside the message
  Verified    \* the messages for which SignedMessage::verify is true

\* RobotsConfig.  The code keeps robots and users in lists and in maps keyed
\* by peer id and public key; what the properties tell apart is who is listed.
Config == [version : Nat, robots : SUBSET Key, users : SUBSET Key]

ASSUME StoreAssumption ==
  /\ NoMessage \notin Message
  /\ Signer \in [Message -> Key]
  /\ Content \in [Message -> Config]
  /\ Verified \subseteq Message

\* A configuration with the message it came in.  This is the shape of the
\* manager's own fields (config_version, robots, users, config_message), of a
\* value of ConfigStorage.configs and of the dump written to disk; an entry
\* without a message stands for "none" in the last two.
Entry == [config : Config, msg : Message \cup {NoMessage}]

DefaultEntry ==
  [config |-> [version |-> 0, robots |-> {}, users |-> {}], msg |-> NoMessage]

IsPresent(e) == e.msg # NoMessage

EntryOf(m) == [config |-> Content[m], msg |-> m]

\* ConfigStorage: one entry for each key that signed a configuration.
Storage == [Key -> Entry]

EmptyStorage == [k \in Key |-> DefaultEntry]
-----------------------------------------------------------------------------
\* Variants with a plausible slip, used to show what the properties detect.
UpdateConfigUnguarded(s, k, c, m) == [s EXCEPT ![k] = [config |-> c, msg |-> m]]
SetRobotsConfigKeepsUsers(e, c, m) ==
  IF c.version > e.config.version
  THEN [config |-> [c EXCEPT !.users = @ \cup e.config.users], msg |-> m]
  ELSE e
SetRobotsConfigUnguarded(e, c, m) == [config |-> c, msg |-> m]
SetRobotsConfigForgetsVersion(e, c, m) ==
  IF c.version > e.config.version
  THEN [config |-> [c EXCEPT !.version = e.config.version], msg |-> m]
  ELSE e
-----------------------------------------------------------------------------
\* ConfigStorage::update_config: an entry is replaced only by a newer version.
UpdateConfig(s, k, c, m) ==
  IF IsPresent(s[k]) /\ s[k].config.version >= c.version
  THEN s
  ELSE [s EXCEPT ![k] = [config |-> c, msg |-> m]]

\* RobotsManager::set_robots_config, its effect on the manager's own fields:
\* robots and users are cleared and refilled, but only for a newer version.
SetRobotsConfig(e, c, m) ==
  IF c.version > e.config.version THEN [config |-> c, msg |-> m] ELSE e

\* ... and its effect on config_storage, under the owner's key o.
StoreRobotsConfig(s, e, o, c, m) ==
  IF c.version > e.config.version THEN UpdateConfig(s, o, c, m) ELSE s

\* RobotsManager::read_robots_from_config: the robots listed in config.json
\* are added to whatever is there; version and message stay.
AddRobots(e, extra) == [e EXCEPT !.config.robots = @ \cup extra]

\* RobotsManager::get_role for a public key, tested in the order of the code.
GetRole(o, c, k) ==
  CASE k = o                                         -> "Owner"
    [] k # o /\ k \in c.robots                       -> "OrganizationRobot"
    [] k # o /\ k \notin c.robots /\ k \in c.users   -> "OrganizationUser"
    [] OTHER                                         -> "Unknown"
=============================================================================
