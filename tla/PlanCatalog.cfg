CONSTANTS
  v1 = v1
  v2 = v2
  v3 = v3
  e1 = e1
  e2 = e2
  None = None
  Versions <- MCVersions
  Editors <- MCEditors
  Instants <- MCInstants
  Forever = 3
SPECIFICATION Spec
SYMMETRY Symmetry
INVARIANT TypeOK
INVARIANT OneVersionPerInstant
