\* Three exports of two files, one failure anywhere and one stop.
SPECIFICATION Spec
CONSTANTS
  Exports = {e1, e2, e3}
  Files = {docx, pdf}
  NoExport = NoExport
  NoRow = NoRow
  Flat = Flat
  MaxFaults = 1
  MaxCrashes = 1
SYMMETRY MCSymmetry
INVARIANTS TypeOK SingleExporter RecordedFilesExist OneExport StorageTidy PollingStopsOnlyOnError
\* Every export is served and nothing is left to do.
CHECK_DEADLOCK FALSE
