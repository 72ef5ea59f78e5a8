\* Two tests of one package, in parallel, and one of another.
SPECIFICATION Spec
CONSTANTS
  t1 = t1
  t2 = t2
  t3 = t3
  devsink = devsink
  lotelhelper = lotelhelper
  Nobody = Nobody
  Tests <- MCTests
  Packages <- MCPackages
  PackageOf <- MCPackageOf
INVARIANTS
  TypeOK
  RunningWhileUsed
  NothingLeft
PROPERTIES
  OutsideStoppedOnlyWhenMissed
  CallsReturn
