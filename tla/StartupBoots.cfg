\* Any file, any variables, one edit between any two steps.
SPECIFICATION BootSpec
CONSTANTS
  ElevatedAt = 1
  RestrictedAt = 2
  LockedAt = 3
  Names <- TwoNames
  Dirs <- TwoDirs
  MaxEdits = 1
  NoFile = NoFile
  Malformed = Malformed
  Misshapen = Misshapen
  Unbuilt = Unbuilt
  ConfigError = ConfigError
  TOMLDecodeError = TOMLDecodeError
  YAMLError = YAMLError
  ValueError = ValueError
INVARIANT AskedIsServed OneConfiguration MissingProfileIsTheDefault
